---- MODULE Spec2Model ----
(***************************************************************************)
(* Join-ring operation of locutus-node                                     *)
(* (crates/locutus-node/src/operations/join_ring.rs): the JROpSM state     *)
(* machine, the dispatcher routines join_ring_op / update_state /          *)
(* initial_join_request and the message types they exchange.               *)
(*                                                                         *)
(* Option<T> is a sequence of length 0 (None) or 1 (Some(x)).              *)
(* A Location is a point k / LocScale of the unit circle, written k.       *)
(***************************************************************************)
EXTENDS Integers, Sequences, FiniteSets, TLC

\* ------------------------------------------------------------------ bounds
MaxPeers == 2
LocScale == 2
MaxTx == 2
MaxHops == 1
MaxRingHops == 2
MaxConnections == 1
MaxJoins == 1

Peers == 1..MaxPeers
Locations == 0..(LocScale - 1)
TxIds == 1..MaxTx
Hops == 0..MaxHops

None == <<>>
Some(x) == <<x>>
IsSome(o) == Len(o) = 1
Unwrap(o) == o[1]

\* ------------------------------------------------------------ data types
\* conn_manager::PeerKeyLocation { peer, location: Option<Location> }
PeerKeyLocation(peer, location) == [peer |-> peer, location |-> location]
PeerKeyLocations == [peer : Peers, location : {None} \cup {Some(l) : l \in Locations}]

\* struct ConnectionInfo { gateway, this_peer, max_hops_to_live }
ConnectionInfo(gateway, this_peer, max_hops_to_live) ==
    [gateway |-> gateway, this_peer |-> this_peer, max_hops_to_live |-> max_hops_to_live]

\* enum JRState { Initializing, Connecting(ConnectionInfo), OCReceived, Connected }
JRState(tag, info) == [tag |-> tag, info |-> info]
Initializing == JRState("Initializing", None)
Connecting(info) == JRState("Connecting", Some(info))
OCReceived == JRState("OCReceived", None)
Connected == JRState("Connected", None)
JRStateTags == {"Initializing", "Connecting", "OCReceived", "Connected"}

\* const INITIAL_STATE: JRState = JRState::Initializing
INITIAL_STATE == Initializing

\* ---------------------------------------------------------------- messages
\* enum JoinRequest { Initial { .. }, Proxy { .. } }
JoinRequestInitial(target_loc, req_peer, hops_to_live, max_hops_to_live) ==
    [req |-> "Initial", target_loc |-> target_loc, req_peer |-> req_peer,
     hops_to_live |-> hops_to_live, max_hops_to_live |-> max_hops_to_live]
JoinRequestProxy(joiner, hops_to_live) ==
    [req |-> "Proxy", joiner |-> joiner, hops_to_live |-> hops_to_live]

\* enum JoinResponse { Initial { .. }, ReceivedOC { .. }, Proxy { .. } }
JoinResponseInitial(accepted_by, your_location, your_peer_id) ==
    [resp |-> "Initial", accepted_by |-> accepted_by,
     your_location |-> your_location, your_peer_id |-> your_peer_id]
JoinResponseReceivedOC(by_peer) == [resp |-> "ReceivedOC", by_peer |-> by_peer]
JoinResponseProxy(accepted_by) == [resp |-> "Proxy", accepted_by |-> accepted_by]

\* enum JoinRingMsg { Req { id, msg }, Resp { id, sender, msg }, Connected }
Req(id, msg) == [variant |-> "Req", id |-> id, msg |-> msg]
Resp(id, sender, msg) == [variant |-> "Resp", id |-> id, sender |-> sender, msg |-> msg]
ConnectedMsg == [variant |-> "Connected"]

IsReqInitial(m) == m.variant = "Req" /\ m.msg.req = "Initial"
IsReqProxy(m) == m.variant = "Req" /\ m.msg.req = "Proxy"
IsResp(m, kind) == m.variant = "Resp" /\ m.msg.resp = kind

\* ------------------------------------------------------- the state machine
\* As transition, with the third arm also matching the state Connected.
TransitionAcceptsConnected(state, input) ==
    IF state.tag = "Initializing" /\ IsReqInitial(input)
    THEN Some(Connecting(ConnectionInfo(input.msg.target_loc, input.msg.req_peer,
                                        input.msg.max_hops_to_live)))
    ELSE IF state.tag \in {"Connecting", "Initializing"} /\ IsResp(input, "ReceivedOC")
    THEN Some(OCReceived)
    ELSE IF state.tag \in {"Connecting", "OCReceived", "Connected"}
            /\ input.variant \in {"Req", "Connected"}
    THEN Some(Connected)
    ELSE None

\* As transition, with the Connecting -> OCReceived step also taken on Resp::Initial.
TransitionOnRespInitial(state, input) ==
    IF state.tag = "Initializing" /\ IsReqInitial(input)
    THEN Some(Connecting(ConnectionInfo(input.msg.target_loc, input.msg.req_peer,
                                        input.msg.max_hops_to_live)))
    ELSE IF state.tag \in {"Connecting", "Initializing"}
            /\ (IsResp(input, "ReceivedOC") \/ IsResp(input, "Initial"))
    THEN Some(OCReceived)
    ELSE IF state.tag \in {"Connecting", "OCReceived"}
            /\ input.variant \in {"Req", "Connected"}
    THEN Some(Connected)
    ELSE None

\* JROpSM::transition: the next state, or None when the input is not accepted.
transition(state, input) ==
    IF state.tag = "Initializing" /\ IsReqInitial(input)
    THEN Some(Connecting(ConnectionInfo(input.msg.target_loc, input.msg.req_peer,
                                        input.msg.max_hops_to_live)))
    ELSE IF state.tag \in {"Connecting", "Initializing"} /\ IsResp(input, "ReceivedOC")
    THEN Some(OCReceived)
    ELSE IF state.tag \in {"Connecting", "OCReceived"}
            /\ input.variant \in {"Req", "Connected"}
    THEN Some(Connected)
    ELSE None

\* As output, with the requester and the target swapped in the first reply.
OutputSwapsPeers(state, input) ==
    IF state.tag = "Initializing" /\ IsReqInitial(input)
    THEN Some(Resp(input.id,
                   PeerKeyLocation(input.msg.target_loc.peer, None),
                   JoinResponseReceivedOC(PeerKeyLocation(input.msg.req_peer, None))))
    ELSE IF state.tag \in {"Initializing", "Connecting"}
            /\ (IsResp(input, "ReceivedOC") \/ input.variant = "Connected")
    THEN Some(ConnectedMsg)
    ELSE IF state.tag = "OCReceived" /\ input.variant = "Connected"
    THEN Some(ConnectedMsg)
    ELSE None

\* JROpSM::output: the message emitted for (state, input), if any.
output(state, input) ==
    IF state.tag = "Initializing" /\ IsReqInitial(input)
    THEN Some(Resp(input.id,
                   PeerKeyLocation(input.msg.req_peer, None),
                   JoinResponseReceivedOC(input.msg.target_loc)))
    ELSE IF state.tag \in {"Initializing", "Connecting"}
            /\ (IsResp(input, "ReceivedOC") \/ input.variant = "Connected")
    THEN Some(ConnectedMsg)
    ELSE IF state.tag = "OCReceived" /\ input.variant = "Connected"
    THEN Some(ConnectedMsg)
    ELSE None

\* rust_fsm StateMachine::consume: Err when transition gives None (state kept),
\* otherwise the output computed on the old state and the state replaced.
consume(state, input) ==
    LET next == transition(state, input) IN
    IF IsSome(next)
    THEN [ok |-> TRUE, state |-> Unwrap(next), output |-> output(state, input)]
    ELSE [ok |-> FALSE, state |-> state, output |-> None]

\* ------------------------------------------------------------------- state
VARIABLES
    sm,           \* the two StateMachine<JROpSM> of the handshake: host -> JRState
    sm_last,      \* Option: the latest consume call (host, state before, input, result)
    wire,         \* Option: the message the handshake holds (res), and the host that consumes it next
    hs_req,       \* Option: the Req::Initial that started the handshake
    hs_step,      \* number of consume calls made by the handshake so far
    sm_hist,      \* host -> whether the machine began with Req::Initial, and how many
                  \* Connected messages it has emitted
    ring,         \* op_storage.ring: the peer's Ring
    op_storage,   \* OpStateStorage: Transaction -> Operation
    connections,  \* connections registered with the connection bridge
    used_tx,      \* transaction ids already generated or seen
    panicked,     \* the node task has panicked (todo!() / unreachable!())
    joins,        \* number of initial_join_request calls made
    last,         \* Option: what the latest dispatcher routine did
    outbox,       \* messages handed to conn_manager.send by the latest routine
    pending,      \* Option: the routine suspended in conn_manager.send(..).await
    est,          \* Option: the router's PeerTimeEstimator
    recorded,     \* peer -> the points of every event recorded for it (history and added)
    est_adds,     \* number of add_event calls made
    est_last,     \* Option: the latest estimate_retrieval_time call and its result
    ck,           \* Option: the latest contract-interface call and its result
    p2p,          \* Option: the NodeP2P built, and how far run_node has got
    inbox,        \* Option: the email app's InboxModel
    inbox_last    \* Option: the latest InboxModel call and what it did

smVars == <<sm, sm_last, wire, hs_req, hs_step, sm_hist>>
nodeVars == <<ring, op_storage, connections, used_tx, panicked, joins, last, outbox, pending>>
appVars == <<p2p, inbox, inbox_last>>
extVars == <<est, recorded, est_adds, est_last, ck, p2p, inbox, inbox_last>>
vars == <<sm, sm_last, wire, hs_req, hs_step, sm_hist,
          ring, op_storage, connections, used_tx, panicked, joins, last, outbox, pending,
          est, recorded, est_adds, est_last, ck, p2p, inbox, inbox_last>>

Hosts == {"host_1", "host_2"}
OtherHost(h) == IF h = "host_1" THEN "host_2" ELSE "host_1"

\* ------------------------------------------------------- message universes
AcceptedLists(pkls) == {<<>>} \cup {<<p>> : p \in pkls}

\* hops_to_live starts at max_hops_to_live and only decreases (join_ring.rs:31).
HopPairs == {hp \in Hops \X Hops : hp[1] <= hp[2]}

ReqInitialMsgs(pkls) ==
    {Req(id, JoinRequestInitial(t, p, hp[1], hp[2])) :
        id \in TxIds, t \in pkls, p \in Peers, hp \in HopPairs}
ReqProxyMsgs(pkls) ==
    {Req(id, JoinRequestProxy(j, h)) : id \in TxIds, j \in pkls, h \in Hops}
LocationsOf(pkls) == {Unwrap(p.location) : p \in {q \in pkls : IsSome(q.location)}}
RespInitialMsgs(pkls) ==
    UNION {{Resp(id, s, JoinResponseInitial(a, l, p)) :
                id \in TxIds, a \in AcceptedLists({s}), l \in LocationsOf(pkls),
                p \in Peers} :
           s \in pkls}
RespReceivedOCMsgs(pkls) ==
    {Resp(id, s, JoinResponseReceivedOC(b)) : id \in TxIds, s \in pkls, b \in pkls}
RespProxyMsgs(pkls) ==
    UNION {{Resp(id, s, JoinResponseProxy(a)) : id \in TxIds, a \in AcceptedLists({s})} :
           s \in pkls}
JoinRingMsgs(pkls) ==
    ReqInitialMsgs(pkls) \cup ReqProxyMsgs(pkls) \cup RespInitialMsgs(pkls)
        \cup RespReceivedOCMsgs(pkls) \cup RespProxyMsgs(pkls) \cup {ConnectedMsg}
\* The same, with the locations varied only where a request is handled, and the
\* request's max_hops_to_live, which the handling peer does not read, at MaxHops.
DispatchedMsgs(pkls, others) ==
    {m \in ReqInitialMsgs(pkls) : m.msg.max_hops_to_live = MaxHops}
        \cup ReqProxyMsgs(others) \cup RespInitialMsgs(others)
        \cup RespReceivedOCMsgs(others) \cup RespProxyMsgs(others) \cup {ConnectedMsg}

\* Peers whose location is unknown or the origin: what the state machine copies
\* does not depend on the location's value.
SmPeerKeyLocations == {p \in PeerKeyLocations : p.location \in {None, Some(0)}}

\* ------------------------------------------------------------ the Ring
\* Circular distance between two locations, in units of 1 / LocScale.
distance(a, b) ==
    LET d == IF a > b THEN a - b ELSE b - a IN
    IF d < LocScale - d THEN d ELSE LocScale - d

\* Ring::should_accept(my_location, location)
should_accept(r, my_location, location) ==
    LET neighbors == DOMAIN r.connections_by_location IN
    \/ Cardinality(neighbors) < r.max_connections
    \/ \E l \in neighbors : distance(location, my_location) < distance(l, my_location)

\* Ring::random_peer(filter): every value the random choice can return.
random_peer(r, req_peer) ==
    LET c == {r.connections_by_location[l] : l \in DOMAIN r.connections_by_location}
        ok == {p \in c : p.peer # req_peer} IN
    IF ok = {} THEN {None} ELSE {Some(p) : p \in ok}

\* connections_by_location: Location -> PeerKeyLocation, every entry stored under
\* its own location, at most max_connections entries, one entry per peer.
ConnectionMaps ==
    UNION {{[l \in D |-> PeerKeyLocation(f[l], Some(l))] :
                f \in {g \in [D -> Peers] : \A a, b \in D : a # b => g[a] # g[b]}} :
           D \in {X \in SUBSET Locations : Cardinality(X) <= MaxConnections}}

Rings ==
    [connections_by_location : ConnectionMaps,
     rnd_if_htl_above : 1..(MaxHops + 1),
     max_hops_to_live : 0..MaxRingHops,
     max_connections : {MaxConnections}]

\* ------------------------------------------------ Message and OpStateStorage
\* message::Message: a JoinRingMsg wrapped by Message::from, or Message::Canceled(tx).
MessageFrom(m) == [variant |-> "JoinRing", inner |-> m]
Canceled(tx) == [variant |-> "Canceled", tx |-> tx]

\* JoinRingMsg::id; None stands for the todo!() of the Connected arm (a panic).
id(m) == IF m.variant \in {"Req", "Resp"} THEN Some(m.id) ELSE None

\* JoinRingMsg::sender: the Option it returns (None for Req, Some(sender) for
\* Resp), or the panic of the todo!() of the Connected arm.
SenderOk(s) == [kind |-> "ok", val |-> s]
SenderTodo == [kind |-> "panic", val |-> None]
sender(m) ==
    IF m.variant = "Req" THEN SenderOk(None)
    ELSE IF m.variant = "Resp" THEN SenderOk(Some(m.sender))
    ELSE SenderTodo

\* Message::id and Message::sender of a wrapped JoinRingMsg; a Canceled message
\* has its transaction and no sender.
MessageId(m) == IF m.variant = "JoinRing" THEN id(m.inner) ELSE Some(m.tx)
MessageSender(m) == IF m.variant = "JoinRing" THEN sender(m.inner) ELSE SenderOk(None)

\* enum Operation { JoinRing(JoinRingOp), .. }
OperationJoinRing(state) == [variant |-> "JoinRing", state |-> Some(state)]
OperationOther == [variant |-> "Other", state |-> None]

\* OpStateStorage::pop and OpStateStorage::push
pop(storage, tx) ==
    IF tx \in DOMAIN storage
    THEN [op |-> Some(storage[tx]),
          rest |-> [t \in DOMAIN storage \ {tx} |-> storage[t]]]
    ELSE [op |-> None, rest |-> storage]
push(storage, tx, op) ==
    [t \in DOMAIN storage \cup {tx} |-> IF t = tx THEN op ELSE storage[t]]

\* usize::MAX, the value a wrapping usize subtraction 0 - 1 yields (written as the
\* largest integer of the model).
USIZE_MAX == 2147483647

\* ------------------------------------------------------------ update_state
\* What update_state gives back: Ok(OperationResult), Err(OpError) or a panic,
\* with the messages it handed to conn_manager.send on the way.
\* Send: a message whose send(..).await has returned, Ok or Err; Handed: a message
\* handed to send whose future has not returned.
Send(to, msg, ok) == [to |-> to, msg |-> msg, ok |-> ok, returned |-> TRUE]
Handed(to, msg) == [to |-> to, msg |-> msg, ok |-> FALSE, returned |-> FALSE]
UpdOk(return_msg, state, sends) ==
    [kind |-> "ok", error |-> "", return_msg |-> return_msg, state |-> state, sends |-> sends]
UpdErr(error, sends) ==
    [kind |-> "err", error |-> error, return_msg |-> None, state |-> None, sends |-> sends]
UpdPanic(sends) ==
    [kind |-> "panic", error |-> "", return_msg |-> None, state |-> None, sends |-> sends]

\* As accepted_by, accepting whatever the ring says.
AcceptedByAlways(r, your_location, new_location) == <<your_location>>

\* The accepted_by vector built by update_state: the handling peer itself (the
\* request's target_loc) when the ring accepts the new location, else nothing.
accepted_by(r, your_location, new_location) ==
    IF should_accept(r, Unwrap(your_location.location), new_location)
    THEN <<your_location>> ELSE <<>>

\* As may_forward, without the test of hops_to_live.
MayForwardAtZeroHops(r, hops_to_live) == DOMAIN r.connections_by_location # {}

\* The guard of the forwarding branch of update_state.
may_forward(r, hops_to_live) ==
    hops_to_live > 0 /\ DOMAIN r.connections_by_location # {}

\* The forward target of update_state: a random peer other than the requester
\* (pick) at or above rnd_if_htl_above, below it the connection stored under
\* exactly new_location, unless it is the requester.
forward_to(r, hops_to_live, new_location, req_peer, pick) ==
    IF hops_to_live >= r.rnd_if_htl_above
    THEN pick
    ELSE IF new_location \in DOMAIN r.connections_by_location
            /\ r.connections_by_location[new_location].peer # req_peer
         THEN Some(r.connections_by_location[new_location])
         ELSE None

\* hops_to_live.min(ring.max_hops_to_live) - 1 in usize arithmetic without
\* overflow checks: 0 - 1 wraps to usize::MAX.
forwarded_hops_to_live(r, hops_to_live) ==
    LET min_htl == IF hops_to_live < r.max_hops_to_live
                   THEN hops_to_live ELSE r.max_hops_to_live
    IN IF min_htl = 0 THEN USIZE_MAX ELSE min_htl - 1

\* The arm of update_state for Req { msg: JoinRequest::Initial }.
\* env: new_location = Location::random(), pick = the value of ring.random_peer,
\* send_ok = whether conn_manager.send succeeds, overflow_checks = the build's
\* integer overflow checks.
update_state_req_initial(state, m, r, env) ==
    LET your_location == m.msg.target_loc
        req_peer == m.msg.req_peer
        hops_to_live == m.msg.hops_to_live
        new_location == env.new_location
    IN
    IF your_location.location = None THEN UpdErr("TxUpdateFailure", <<>>)
    ELSE
    LET join_response ==
            MessageFrom(Resp(m.id, your_location,
                             JoinResponseInitial(accepted_by(r, your_location, new_location),
                                                 new_location, req_peer)))
        new_peer_loc == PeerKeyLocation(req_peer, Some(new_location))
        target == forward_to(r, hops_to_live, new_location, req_peer, env.pick)
        min_htl == IF hops_to_live < r.max_hops_to_live
                   THEN hops_to_live ELSE r.max_hops_to_live
    IN
    IF may_forward(r, hops_to_live)
    THEN IF IsSome(target)
         THEN IF min_htl = 0 /\ env.overflow_checks
              THEN UpdPanic(<<>>)
              ELSE LET forwarded ==
                           MessageFrom(Req(m.id, JoinRequestProxy(
                               new_peer_loc, forwarded_hops_to_live(r, hops_to_live))))
                       sends == <<Send(Unwrap(target), forwarded, env.send_ok)>>
                   IN IF env.send_ok THEN UpdPanic(sends)
                      ELSE UpdErr("Transport", sends)
         ELSE UpdOk(Some(join_response), Some(state), <<>>)
    ELSE UpdOk(Some(join_response), Some(state), <<>>)

\* As update_state, with the machine consuming the request before it is kept.
UpdateStateConsuming(state, m, r, env) ==
    IF IsReqInitial(m)
    THEN LET res == update_state_req_initial(state, m, r, env) IN
         IF res.kind = "ok"
         THEN [res EXCEPT !.state = Some(consume(state, m).state)]
         ELSE res
    ELSE UpdPanic(<<>>)

\* update_state: every arm but Req::Initial is todo!().
update_state(state, m, r, env) ==
    IF IsReqInitial(m)
    THEN update_state_req_initial(state, m, r, env)
    ELSE UpdPanic(<<>>)

\* ------------------------------------------------------------ join_ring_op
\* What a dispatcher routine leaves behind.
Done(outcome, error, storage, sends, tx, popped, result) ==
    [outcome |-> outcome, error |-> error, storage |-> storage, sends |-> sends,
     tx |-> tx, popped |-> popped, result |-> result]

\* What the match on update_state's result leaves behind.
Handled(outcome, error, storage, sends) ==
    [outcome |-> outcome, error |-> error, storage |-> storage, sends |-> sends]

\* The arm Err(err): Canceled(tx) goes to the sender of the processed message, if
\* it has one, and the error is returned.
handle_err(result, tx, sender_, storage, send_ok) ==
    IF IsSome(sender_)
    THEN Handled("err", IF send_ok THEN result.error ELSE "Transport", storage,
                 Append(result.sends, Send(Unwrap(sender_), Canceled(tx), send_ok)))
    ELSE Handled("err", result.error, storage, result.sends)

\* As handle_updated, without the push.
HandleUpdatedNoPush(result, storage, send_ok, push_ok) ==
    LET msg == Unwrap(result.return_msg)
        target == MessageSender(msg)
        sends == IF IsSome(target.val)
                 THEN Append(result.sends, Send(Unwrap(target.val), msg, send_ok))
                 ELSE result.sends
    IN IF MessageId(msg) = None \/ target.kind = "panic"
       THEN Handled("panic", "todo", storage, result.sends)
       ELSE IF IsSome(target.val) /\ ~send_ok
       THEN Handled("err", "Transport", storage, sends)
       ELSE Handled("ok", "", storage, sends)

\* The arm Ok { return_msg: Some(msg), state: Some(updated_state) }: msg.id() and
\* msg.sender() (todo!() for a Connected message), the send to the sender if the
\* message has one, then the push under the message's id. push_ok: whether
\* op_storage.push returns Ok; a push that returns Err is taken to store nothing.
handle_updated(result, storage, send_ok, push_ok) ==
    LET msg == Unwrap(result.return_msg)
        target == MessageSender(msg)
        sends == IF IsSome(target.val)
                 THEN Append(result.sends, Send(Unwrap(target.val), msg, send_ok))
                 ELSE result.sends
    IN IF MessageId(msg) = None \/ target.kind = "panic"
       THEN Handled("panic", "todo", storage, result.sends)
       ELSE IF IsSome(target.val) /\ ~send_ok
       THEN Handled("err", "Transport", storage, sends)
       ELSE IF ~push_ok
       THEN Handled("err", "push", storage, sends)
       ELSE Handled("ok", "",
                    push(storage, Unwrap(MessageId(msg)),
                         OperationJoinRing(Unwrap(result.state))),
                    sends)

\* The arm Ok { return_msg: Some(msg), state: None }.
handle_finished(result, storage, send_ok) ==
    LET msg == Unwrap(result.return_msg)
        target == MessageSender(msg)
        sends == IF IsSome(target.val)
                 THEN Append(result.sends, Send(Unwrap(target.val), msg, send_ok))
                 ELSE result.sends
    IN IF target.kind = "panic"
       THEN Handled("panic", "todo", storage, result.sends)
       ELSE IF IsSome(target.val) /\ ~send_ok
       THEN Handled("err", "Transport", storage, sends)
       ELSE Handled("ok", "", storage, sends)

\* The arm _ => unreachable!(): return_msg: None with state: Some(_).
handle_other(result, tx, storage) ==
    Handled("panic", "unreachable", storage, result.sends)

\* The match on update_state's result at the end of join_ring_op; storage is
\* op_storage after the pop, sender_ the sender of the processed message.
handle_result(result, tx, sender_, storage, send_ok, push_ok) ==
    IF result.kind = "err"
    THEN handle_err(result, tx, sender_, storage, send_ok)
    ELSE IF IsSome(result.return_msg) /\ IsSome(result.state)
    THEN handle_updated(result, storage, send_ok, push_ok)
    ELSE IF IsSome(result.return_msg) /\ ~IsSome(result.state)
    THEN handle_finished(result, storage, send_ok)
    ELSE IF ~IsSome(result.return_msg) /\ ~IsSome(result.state)
    THEN Handled("ok", "", storage, result.sends)
    ELSE handle_other(result, tx, storage)

\* As join_ring_op, looking the operation up without taking it out of the storage.
JoinRingOpPeeking(storage, m, r, env) ==
    IF id(m) = None
    THEN Done("panic", "todo", storage, <<>>, None, None, None)
    ELSE
    LET tx == Unwrap(id(m))
        popped == pop(storage, tx)
    IN
    IF IsSome(popped.op) /\ Unwrap(popped.op).variant # "JoinRing"
    THEN Done("err", "TxUpdateFailure", storage, <<>>, Some(tx), popped.op, None)
    ELSE IF sender(m).kind = "panic"
    THEN Done("panic", "todo", storage, <<>>, Some(tx), popped.op, None)
    ELSE
    LET state == IF IsSome(popped.op) THEN Unwrap(Unwrap(popped.op).state)
                 ELSE INITIAL_STATE
        result == update_state(state, m, r, env)
    IN
    IF result.kind = "panic"
    THEN Done("panic", "todo", storage, result.sends, Some(tx), popped.op, Some(result))
    ELSE LET h == handle_result(result, tx, sender(m).val, storage,
                                env.send_ok, env.push_ok) IN
         Done(h.outcome, h.error, h.storage, h.sends, Some(tx), popped.op, Some(result))

\* join_ring_op(op_storage, conn_manager, join_op), run to its end: env.send_ok
\* and env.push_ok are what conn_manager.send and op_storage.push return.
join_ring_op(storage, m, r, env) ==
    IF id(m) = None
    THEN Done("panic", "todo", storage, <<>>, None, None, None)
    ELSE
    LET tx == Unwrap(id(m))
        popped == pop(storage, tx)
    IN
    IF IsSome(popped.op) /\ Unwrap(popped.op).variant # "JoinRing"
    THEN Done("err", "TxUpdateFailure", popped.rest, <<>>, Some(tx), popped.op, None)
    ELSE IF sender(m).kind = "panic"
    THEN Done("panic", "todo", popped.rest, <<>>, Some(tx), popped.op, None)
    ELSE
    LET state == IF IsSome(popped.op) THEN Unwrap(Unwrap(popped.op).state)
                 ELSE INITIAL_STATE
        result == update_state(state, m, r, env)
    IN
    IF result.kind = "panic"
    THEN Done("panic", "todo", popped.rest, result.sends, Some(tx), popped.op, Some(result))
    ELSE LET h == handle_result(result, tx, sender(m).val, popped.rest,
                                env.send_ok, env.push_ok) IN
         Done(h.outcome, h.error, h.storage, h.sends, Some(tx), popped.op, Some(result))

\* ---------------------------------------------------- initial_join_request
\* JoinRingOp::initial_request: a fresh machine that has consumed the Req::Initial
\* (the transaction id of that request is not kept by the machine).
initial_request(req_peer, target_loc, max_hops_to_live, tx) ==
    consume(INITIAL_STATE,
            Req(tx, JoinRequestInitial(target_loc, req_peer,
                                       max_hops_to_live, max_hops_to_live))).state

\* JRState::try_unwrap_connecting: Some(info), or None for IllegalStateTransition.
try_unwrap_connecting(state) ==
    IF state.tag = "Connecting" THEN state.info ELSE None

\* As initial_join_request, with the request carrying a transaction of its own.
InitialJoinRequestOwnTx(storage, conns, join_op, tx, send_ok, log_info, push_ok) ==
    LET info == try_unwrap_connecting(join_op) IN
    IF info = None
    THEN [outcome |-> "err", error |-> "IllegalStateTransition", storage |-> storage,
          connections |-> conns, sends |-> <<>>, tx |-> None]
    ELSE
    LET gateway == Unwrap(info).gateway
        this_peer == Unwrap(info).this_peer
        max_hops_to_live == Unwrap(info).max_hops_to_live
        other_tx == CHOOSE t \in TxIds : t # tx
        join_req == MessageFrom(Req(other_tx, JoinRequestInitial(gateway, this_peer,
                                                                 max_hops_to_live,
                                                                 max_hops_to_live)))
        sends == <<Send(gateway, join_req, send_ok)>>
    IN
    IF log_info /\ gateway.location = None
    THEN [outcome |-> "err", error |-> "LocationUnknown", storage |-> storage,
          connections |-> conns, sends |-> <<>>, tx |-> None]
    ELSE IF ~send_ok
    THEN [outcome |-> "err", error |-> "Transport", storage |-> storage,
          connections |-> conns \cup {gateway}, sends |-> sends, tx |-> Some(tx)]
    ELSE IF ~push_ok
    THEN [outcome |-> "err", error |-> "push", storage |-> storage,
          connections |-> conns \cup {gateway}, sends |-> sends, tx |-> Some(tx)]
    ELSE [outcome |-> "ok", error |-> "",
          storage |-> push(storage, tx, OperationJoinRing(join_op)),
          connections |-> conns \cup {gateway}, sends |-> sends, tx |-> Some(tx)]

\* initial_join_request(op_storage, conn_manager, join_op), run to its end; tx is
\* the value of Transaction::new, log_info whether the info log level is enabled
\* (the gateway's location is unwrapped inside the log::info! arguments),
\* send_ok and push_ok what conn_manager.send and op_storage.push return.
initial_join_request(storage, conns, join_op, tx, send_ok, log_info, push_ok) ==
    LET info == try_unwrap_connecting(join_op) IN
    IF info = None
    THEN [outcome |-> "err", error |-> "IllegalStateTransition", storage |-> storage,
          connections |-> conns, sends |-> <<>>, tx |-> None]
    ELSE
    LET gateway == Unwrap(info).gateway
        this_peer == Unwrap(info).this_peer
        max_hops_to_live == Unwrap(info).max_hops_to_live
        join_req == MessageFrom(Req(tx, JoinRequestInitial(gateway, this_peer,
                                                           max_hops_to_live,
                                                           max_hops_to_live)))
        sends == <<Send(gateway, join_req, send_ok)>>
    IN
    IF log_info /\ gateway.location = None
    THEN [outcome |-> "err", error |-> "LocationUnknown", storage |-> storage,
          connections |-> conns, sends |-> <<>>, tx |-> None]
    ELSE IF ~send_ok
    THEN [outcome |-> "err", error |-> "Transport", storage |-> storage,
          connections |-> conns \cup {gateway}, sends |-> sends, tx |-> Some(tx)]
    ELSE IF ~push_ok
    THEN [outcome |-> "err", error |-> "push", storage |-> storage,
          connections |-> conns \cup {gateway}, sends |-> sends, tx |-> Some(tx)]
    ELSE [outcome |-> "ok", error |-> "",
          storage |-> push(storage, tx, OperationJoinRing(join_op)),
          connections |-> conns \cup {gateway}, sends |-> sends, tx |-> Some(tx)]

\* ------------------------------------------- the router's PeerTimeEstimator
\* (crates/locutus-router/src/lib.rs)
MaxTime == 1
MaxHistory == 11
MaxAdds == 2

MIN_PEER_POINTS_FOR_REGRESSION == 10

\* Point::new(x, y): x a distance in units of 1 / LocScale, y a measured time.
Point(x, y) == <<x, y>>
Dists == 0..(LocScale \div 2)
Times == 0..MaxTime
Points == Dists \X Times

\* struct RoutingEvent { peer, peer_location, contract_location, result }
RoutingEvent(peer, peer_location, contract_location, result) ==
    [peer |-> peer, peer_location |-> peer_location,
     contract_location |-> contract_location, result |-> result]

\* The point an event stands for:
\* Point::new(peer_location.distance(&contract_location), result).
PointOf(event) ==
    Point(distance(event.peer_location, event.contract_location), event.result)

\* A multiset of points: how many times each point occurs.
NoPoints == [pt \in Points |-> 0]
PointsOf(pts) == [pt \in Points |-> Cardinality({i \in 1..Len(pts) : pts[i] = pt})]
PlusPoints(a, b) == [pt \in Points |-> a[pt] + b[pt]]
CountPoints(a) ==
    LET RECURSIVE Sum(_)
        Sum(S) == IF S = {} THEN 0
                  ELSE LET pt == CHOOSE q \in S : TRUE IN a[pt] + Sum(S \ {pt})
    IN Sum(Points)

\* ---- pav_regression's IsotonicRegression: the best ascending (monotone
\* non-decreasing) fit to the points, held here as the multiset of its points.
\* Values are exact fractions [n, d] with d > 0.
Rat(n, d) == [n |-> n, d |-> d]
RatLeq(a, b) == a.n * b.d <= b.n * a.d
MinRat(S) == CHOOSE r \in S : \A t \in S : RatLeq(r, t)
MaxRat(S) == CHOOSE r \in S : \A t \in S : RatLeq(t, r)
MinOf(S) == CHOOSE x \in S : \A y \in S : x <= y
MaxOf(S) == CHOOSE x \in S : \A y \in S : y <= x

\* IsotonicRegression::new_ascending(points), add_points(points) and len().
new_ascending(points) == PointsOf(points)
add_points(regression, points) == PlusPoints(regression, PointsOf(points))
len(regression) == CountPoints(regression)

\* The number of points at the distances of X, and the sum of their times.
WeightIn(regression, X) ==
    LET RECURSIVE Sum(_)
        Sum(S) == IF S = {} THEN 0
                  ELSE LET pt == CHOOSE q \in S : TRUE IN
                       regression[pt] + Sum(S \ {pt})
    IN Sum({pt \in Points : pt[1] \in X})
TimeIn(regression, X) ==
    LET RECURSIVE Sum(_)
        Sum(S) == IF S = {} THEN 0
                  ELSE LET pt == CHOOSE q \in S : TRUE IN
                       pt[2] * regression[pt] + Sum(S \ {pt})
    IN Sum({pt \in Points : pt[1] \in X})

\* The distances that have points, and the fitted value at one of them: the
\* max over a <= x of the min over b >= x of the mean time of the points at
\* distances a..b.
FittedAt(regression) == {x \in Dists : WeightIn(regression, {x}) > 0}
\* As Fitted, without pooling: the mean time of the points at x alone.
FittedUnpooled(regression, x) ==
    Rat(TimeIn(regression, {x}), WeightIn(regression, {x}))
Fitted(regression, x) ==
    LET Xs == FittedAt(regression)
        Mean(a, b) == Rat(TimeIn(regression, a..b), WeightIn(regression, a..b))
    IN MaxRat({MinRat({Mean(a, b) : b \in {c \in Xs : c >= x}}) :
                   a \in {c \in Xs : c <= x}})

\* IsotonicRegression::interpolate at the distance q / 2: linear between the two
\* fitted points around it, the value of the end point outside their range.
interpolate(regression, q) ==
    LET Xs == FittedAt(regression)
        below == {x \in Xs : 2 * x <= q}
        above == {x \in Xs : 2 * x >= q}
    IN IF Xs = {} THEN Rat(0, 1)
       ELSE IF below = {} THEN Fitted(regression, MinOf(Xs))
       ELSE IF above = {} THEN Fitted(regression, MaxOf(Xs))
       ELSE LET x1 == MaxOf(below)
                x2 == MinOf(above)
                f1 == Fitted(regression, x1)
                f2 == Fitted(regression, x2)
            IN IF x1 = x2 THEN f1
               ELSE Rat(f1.n * f2.d * 2 * (x2 - x1)
                            + (f2.n * f1.d - f1.n * f2.d) * (q - 2 * x1),
                        f1.d * f2.d * 2 * (x2 - x1))

\* ---- PeerTimeEstimator { global_regression, peer_regressions }
\* The points of the events of history recorded for peer.
PeerPoints(history, peer) ==
    LET RECURSIVE Collect(_)
        Collect(i) ==
            IF i > Len(history) THEN <<>>
            ELSE IF history[i].peer = peer
                 THEN <<PointOf(history[i])>> \o Collect(i + 1)
                 ELSE Collect(i + 1)
    IN Collect(1)

\* As new, with the threshold met by MIN_PEER_POINTS_FOR_REGRESSION points.
NewAtThreshold(history) ==
    [global_regression |->
        new_ascending([i \in 1..Len(history) |-> PointOf(history[i])]),
     peer_regressions |->
        [p \in Peers |->
            IF Len(PeerPoints(history, p)) >= MIN_PEER_POINTS_FOR_REGRESSION
            THEN Some(new_ascending(PeerPoints(history, p)))
            ELSE None]]

\* PeerTimeEstimator::new(history)
new(history) ==
    [global_regression |->
        new_ascending([i \in 1..Len(history) |-> PointOf(history[i])]),
     peer_regressions |->
        [p \in Peers |->
            IF Len(PeerPoints(history, p)) > MIN_PEER_POINTS_FOR_REGRESSION
            THEN Some(new_ascending(PeerPoints(history, p)))
            ELSE None]]

\* PeerTimeEstimator::add_event(event): entry(peer).or_insert_with(a regression of
\* the point).add_points(the point).
add_event(e, event) ==
    LET point == PointOf(event)
        existing == e.peer_regressions[event.peer]
        entry == IF IsSome(existing) THEN Unwrap(existing)
                 ELSE new_ascending(<<point>>)
    IN [global_regression |-> add_points(e.global_regression, <<point>>),
        peer_regressions |->
            [e.peer_regressions EXCEPT ![event.peer] = Some(add_points(entry, <<point>>))]]

\* As estimate_retrieval_time, with the global regression asked first.
EstimateGlobalFirst(e, peer, q) ==
    IF len(e.global_regression) > MIN_PEER_POINTS_FOR_REGRESSION
    THEN Some(interpolate(e.global_regression, q))
    ELSE IF IsSome(e.peer_regressions[peer])
    THEN Some(interpolate(Unwrap(e.peer_regressions[peer]), q))
    ELSE None

\* PeerTimeEstimator::estimate_retrieval_time(peer, distance), distance = q / 2.
estimate_retrieval_time(e, peer, q) ==
    IF IsSome(e.peer_regressions[peer])
    THEN Some(interpolate(Unwrap(e.peer_regressions[peer]), q))
    ELSE IF len(e.global_regression) > MIN_PEER_POINTS_FOR_REGRESSION
    THEN Some(interpolate(e.global_regression, q))
    ELSE None

\* ExtIdle: no estimator built, no contract call made.
ExtIdle ==
    /\ est = None
    /\ recorded = [p \in Peers |-> NoPoints]
    /\ est_adds = 0
    /\ est_last = None
    /\ ck = None
    /\ p2p = None
    /\ inbox = None
    /\ inbox_last = None

\* The node part at rest (used by the specifications of the state machine alone).
NoRing ==
    [connections_by_location |-> <<>>, rnd_if_htl_above |-> 0, max_hops_to_live |-> 0,
     max_connections |-> MaxConnections]
NodeIdle ==
    /\ ring = NoRing
    /\ op_storage = <<>>
    /\ connections = {}
    /\ used_tx = {}
    /\ panicked = FALSE
    /\ joins = 0
    /\ last = None
    /\ outbox = <<>>
    /\ pending = None

SmIdle ==
    /\ sm = [h \in Hosts |-> INITIAL_STATE]
    /\ sm_last = None
    /\ wire = None
    /\ hs_req = None
    /\ hs_step = 0
    /\ sm_hist = [h \in Hosts |-> [started |-> FALSE, connected_out |-> 0]]

\* One call of StateMachine::consume on host h.
ConsumeStep(h, input) ==
    LET r == consume(sm[h], input) IN
    /\ sm' = [sm EXCEPT ![h] = r.state]
    /\ sm_last' = Some([host |-> h, before |-> sm[h], input |-> input,
                        ok |-> r.ok, output |-> r.output])
    /\ sm_hist' = [sm_hist EXCEPT
                       ![h].started = @ \/ (sm[h] = INITIAL_STATE /\ IsReqInitial(input)),
                       ![h].connected_out =
                           IF r.output = Some(ConnectedMsg) THEN @ + 1 ELSE @]

\* ---------------------------------------- SpecSM: one machine, any inputs
\* StateMachine::<JROpSM>::new() followed by consume calls with arbitrary messages.
SmConsume(input) ==
    /\ ConsumeStep("host_1", input)
    /\ UNCHANGED <<wire, hs_req, hs_step>>
    /\ UNCHANGED nodeVars
    /\ UNCHANGED extVars

SmInit == SmIdle /\ NodeIdle /\ ExtIdle
SmNext == \E input \in JoinRingMsgs(SmPeerKeyLocations) : SmConsume(input)
SpecSM == SmInit /\ [][SmNext]_vars

\* ------------------- SpecHandshake: tests::join_ring_transitions, any inputs
\* The test makes six consume calls, host_1 and host_2 in turn, and keeps the
\* latest message in res: wire holds res and the host of the next call.
\* host_1 consumes a Req::Initial; its output is bound to res.
HsStart(req) ==
    /\ hs_step = 0
    /\ ConsumeStep("host_1", req)
    /\ hs_req' = Some(req)
    /\ hs_step' = 1
    /\ wire' = LET r == consume(sm["host_1"], req) IN
               IF IsSome(r.output) THEN Some([to |-> "host_2", msg |-> Unwrap(r.output)])
               ELSE None
    /\ UNCHANGED nodeVars
    /\ UNCHANGED extVars

\* The calls that follow: the second, third and fourth rebind res to the output
\* (unwrapped twice: without an output the test ends there); the fifth and the
\* sixth hand the same res to host_1 and then to host_2 and only look at the result.
HsDeliver ==
    /\ IsSome(wire)
    /\ hs_step < 6
    /\ LET h == Unwrap(wire).to
           m == Unwrap(wire).msg
           r == consume(sm[h], m) IN
       /\ ConsumeStep(h, m)
       /\ wire' = IF hs_step >= 4 THEN Some([to |-> OtherHost(h), msg |-> m])
                  ELSE IF IsSome(r.output)
                  THEN Some([to |-> OtherHost(h), msg |-> Unwrap(r.output)])
                  ELSE None
    /\ hs_step' = hs_step + 1
    /\ UNCHANGED hs_req
    /\ UNCHANGED nodeVars
    /\ UNCHANGED extVars

HsInit == SmIdle /\ NodeIdle /\ ExtIdle
HsNext ==
    \/ \E req \in ReqInitialMsgs(PeerKeyLocations) : HsStart(req)
    \/ HsDeliver
SpecHandshake == HsInit /\ [][HsNext]_vars

\* ------------------------------------------- Spec: one peer's dispatcher
\* The choices of the environment during one join_ring_op call, up to the first
\* send: the results of send and of push are chosen when the send returns
\* (until then send_ok and push_ok hold TRUE).
Envs(m, r) ==
    IF IsReqInitial(m)
    THEN [new_location : Locations,
          pick : random_peer(r, m.msg.req_peer),
          overflow_checks : IF r.max_hops_to_live = 0 THEN BOOLEAN ELSE {TRUE},
          send_ok : {TRUE},
          push_ok : {TRUE}]
    ELSE {[new_location |-> 0, pick |-> None, overflow_checks |-> TRUE,
           send_ok |-> TRUE, push_ok |-> TRUE]}
\* What a send and the push after it return: the push is reached only after a
\* send that returned Ok.
SendResults == {sp \in BOOLEAN \X BOOLEAN : sp[1] \/ sp[2]}

\* The node's own key: peers are only compared for equality, so any one of them.
this_peer_key == CHOOSE p \in Peers : TRUE

\* The peer named in the messages whose arm of update_state is todo!(): the
\* panic does not depend on it.
OtherSenders == {PeerKeyLocation(this_peer_key, Some(0))}

\* The operations handed to initial_join_request: those built by
\* JoinRingOp::initial_request for this node with the ring's max_hops_to_live and
\* a gateway of known or unknown location, and machines in the other states.
JoinOps(r, tx) ==
    {initial_request(this_peer_key, g, r.max_hops_to_live, tx) : g \in SmPeerKeyLocations}
        \cup {Initializing, OCReceived, Connected}

LastCall(op, msg, join_op, env, d) ==
    Some([op |-> op, msg |-> msg, join_op |-> join_op, env |-> env, tx |-> d.tx,
          popped |-> d.popped, result |-> d.result, outcome |-> d.outcome,
          error |-> d.error])

\* A routine suspended in conn_manager.send(..).await: its arguments, the storage
\* and the connections it was called with, and what it has computed so far.
Suspended(op, msg, join_op, env, tx, popped, result, sender_, log_info) ==
    Some([op |-> op, msg |-> msg, join_op |-> join_op, env |-> env,
          storage |-> op_storage, connections |-> connections,
          tx |-> tx, popped |-> popped, result |-> result,
          sender |-> sender_, log_info |-> log_info])

\* No routine is running.
Idle == ~panicked /\ last = None /\ pending = None

\* The dispatcher receives m and runs join_ring_op on it, up to its return or to
\* its send (a call sends at most once: update_state sends only for a Req, which
\* has no sender for a Canceled, and each arm of the result match sends once).
\* At the send the operation is popped and the message is with the transport;
\* update_state has returned unless the send is its own (the forwarded request).
JoinRingOp(m, env) ==
    /\ Idle
    /\ LET d == join_ring_op(op_storage, m, ring, env) IN
       IF d.sends = <<>>
       THEN /\ op_storage' = d.storage
            /\ outbox' = <<>>
            /\ panicked' = (d.outcome = "panic")
            /\ last' = LastCall("join_ring_op", Some(m), None, Some(env), d)
            /\ used_tx' = used_tx \cup (IF IsSome(d.tx) THEN {Unwrap(d.tx)} ELSE {})
            /\ UNCHANGED pending
       ELSE /\ op_storage' = pop(op_storage, Unwrap(d.tx)).rest
            /\ outbox' = <<Handed(d.sends[1].to, d.sends[1].msg)>>
            /\ pending' = Suspended("join_ring_op", Some(m), None, Some(env), d.tx,
                                    d.popped,
                                    IF Unwrap(d.result).sends = <<>> THEN d.result
                                    ELSE None,
                                    None, FALSE)
            /\ used_tx' = used_tx \cup {Unwrap(d.tx)}
            /\ UNCHANGED <<panicked, last>>
    /\ UNCHANGED <<ring, connections, joins>>
    /\ UNCHANGED smVars
    /\ UNCHANGED extVars

\* The send of a suspended join_ring_op returns, and the routine runs to its end.
JoinRingOpResumes(send_ok, push_ok) ==
    /\ pending # None
    /\ Unwrap(pending).op = "join_ring_op"
    /\ LET p == Unwrap(pending)
           given == Unwrap(p.env)
           env == [new_location |-> given.new_location, pick |-> given.pick,
                   overflow_checks |-> given.overflow_checks,
                   send_ok |-> send_ok, push_ok |-> push_ok]
           d == join_ring_op(p.storage, Unwrap(p.msg), ring, env) IN
       /\ op_storage' = d.storage
       /\ outbox' = d.sends
       /\ panicked' = (d.outcome = "panic")
       /\ last' = LastCall("join_ring_op", p.msg, None, Some(env), d)
    /\ pending' = None
    /\ UNCHANGED <<ring, connections, used_tx, joins>>
    /\ UNCHANGED smVars
    /\ UNCHANGED extVars

\* The node starts a join: initial_join_request on join_op, up to its return or
\* to its send, where the connection is added and no operation is stored.
InitialJoinRequest(join_op, tx, log_info) ==
    /\ Idle
    /\ tx \notin used_tx
    /\ joins < MaxJoins
    /\ joins' = joins + 1
    /\ LET d == initial_join_request(op_storage, connections, join_op, tx,
                                     TRUE, log_info, TRUE) IN
       IF d.sends = <<>>
       THEN /\ op_storage' = d.storage
            /\ connections' = d.connections
            /\ outbox' = <<>>
            /\ last' = LastCall("initial_join_request", None, Some(join_op), None,
                                [tx |-> d.tx, popped |-> None, result |-> None,
                                 outcome |-> d.outcome, error |-> d.error])
            /\ used_tx' = used_tx \cup (IF IsSome(d.tx) THEN {tx} ELSE {})
            /\ UNCHANGED pending
       ELSE /\ connections' = d.connections
            /\ outbox' = <<Handed(d.sends[1].to, d.sends[1].msg)>>
            /\ pending' = Suspended("initial_join_request", None, Some(join_op), None,
                                    Some(tx), None, None, None, log_info)
            /\ used_tx' = used_tx \cup {tx}
            /\ UNCHANGED <<op_storage, last>>
    /\ UNCHANGED <<ring, panicked>>
    /\ UNCHANGED smVars
    /\ UNCHANGED extVars

\* The send of a suspended initial_join_request returns: Err is returned by `?`,
\* Ok is followed by the push of the operation.
InitialJoinRequestResumes(send_ok, push_ok) ==
    /\ pending # None
    /\ Unwrap(pending).op = "initial_join_request"
    /\ LET p == Unwrap(pending)
           d == initial_join_request(p.storage, p.connections, Unwrap(p.join_op),
                                     Unwrap(p.tx), send_ok, p.log_info, push_ok) IN
       /\ op_storage' = d.storage
       /\ connections' = d.connections
       /\ outbox' = d.sends
       /\ last' = LastCall("initial_join_request", None, p.join_op, None,
                           [tx |-> d.tx, popped |-> None, result |-> None,
                            outcome |-> d.outcome, error |-> d.error])
    /\ pending' = None
    /\ UNCHANGED <<ring, used_tx, panicked, joins>>
    /\ UNCHANGED smVars
    /\ UNCHANGED extVars

\* The future of a suspended routine is dropped (join_ring_op is documented as
\* not cancellation safe): nothing after the send is run.
FutureDropped ==
    /\ pending # None
    /\ LET p == Unwrap(pending) IN
       last' = LastCall(p.op, p.msg, p.join_op, p.env,
                        [tx |-> p.tx, popped |-> p.popped, result |-> p.result,
                         outcome |-> "dropped", error |-> ""])
    /\ pending' = None
    /\ UNCHANGED <<ring, op_storage, connections, used_tx, panicked, joins, outbox>>
    /\ UNCHANGED smVars
    /\ UNCHANGED extVars

\* Another protocol of the node stores one of its operations (not a JoinRing one).
PushOther(tx) ==
    /\ Idle
    /\ tx \notin used_tx
    /\ op_storage' = push(op_storage, tx, OperationOther)
    /\ used_tx' = used_tx \cup {tx}
    /\ UNCHANGED <<ring, connections, panicked, joins, last, outbox, pending>>
    /\ UNCHANGED smVars
    /\ UNCHANGED extVars

\* The half-open connections of a stored operation: the gateway that a join in
\* Connecting has been connected to and has not answered yet.
half_open(op) ==
    IF op.variant = "JoinRing" /\ Unwrap(op.state).tag = "Connecting"
    THEN {Unwrap(Unwrap(op.state).info).gateway}
    ELSE {}

\* Deadline expiration of the operations of the transactions in expired: they
\* are removed from the storage and their half-open connections are dropped.
expire(storage, conns, expired) ==
    [storage |-> [t \in DOMAIN storage \ expired |-> storage[t]],
     connections |-> conns \ UNION {half_open(storage[t]) : t \in expired}]

\* One iteration of the dispatcher loop, back at recv: the routine, if one ran,
\* has returned and the transport takes its messages; the deadlines are checked
\* and the stored operations whose deadline has passed (expired, decided by the
\* clock) expire. No iteration is made while a routine is suspended, nor after
\* a panic.
NextRecv(expired) ==
    /\ ~panicked
    /\ pending = None
    /\ expired \subseteq DOMAIN op_storage
    /\ last # None \/ expired # {}
    /\ last' = None
    /\ outbox' = <<>>
    /\ op_storage' = expire(op_storage, connections, expired).storage
    /\ connections' = expire(op_storage, connections, expired).connections
    /\ UNCHANGED <<ring, used_tx, panicked, joins, pending>>
    /\ UNCHANGED smVars
    /\ UNCHANGED extVars

\* The loop iterates, whatever has expired.
Recv == \E expired \in SUBSET DOMAIN op_storage : NextRecv(expired)
\* The deadline of tx has passed and the loop's check finds it.
Expires(tx) == \E expired \in SUBSET DOMAIN op_storage : tx \in expired /\ NextRecv(expired)
\* The send of the suspended routine returns, or its future is dropped.
SendReturns ==
    \/ \E sp \in SendResults : JoinRingOpResumes(sp[1], sp[2])
    \/ \E sp \in SendResults : InitialJoinRequestResumes(sp[1], sp[2])
    \/ FutureDropped

Init ==
    /\ SmIdle
    /\ ExtIdle
    /\ ring \in Rings
    /\ op_storage = <<>>
    /\ connections = {}
    /\ used_tx = {}
    /\ panicked = FALSE
    /\ joins = 0
    /\ last = None
    /\ outbox = <<>>
    /\ pending = None

Next ==
    \/ \E m \in DispatchedMsgs(PeerKeyLocations, OtherSenders) :
           \E env \in Envs(m, ring) :
               JoinRingOp(m, env)
    \/ \E sp \in SendResults : JoinRingOpResumes(sp[1], sp[2])
    \/ \E tx \in TxIds \ used_tx : \E join_op \in JoinOps(ring, tx) :
           \E log_info \in BOOLEAN :
               InitialJoinRequest(join_op, tx, log_info)
    \/ \E sp \in SendResults : InitialJoinRequestResumes(sp[1], sp[2])
    \/ FutureDropped
    \/ \E tx \in TxIds \ used_tx : PushOther(tx)
    \/ Recv

Spec == Init /\ [][Next]_vars

\* ------------- SpecLive: the dispatcher with join requests only, running on
\* The joiner starts its join and Req::Initial messages arrive. A routine that has
\* returned gives the control back to the loop, a send returns (or its future is
\* dropped), and time passes: the deadline of every stored operation passes, and
\* the loop's check, made at every iteration, then finds it. Nothing obliges a
\* message to arrive.
\* The node followed: one with a neighbor, which it may forward requests to.
LiveRings ==
    {r \in Rings : /\ r.max_hops_to_live = MaxRingHops
                   /\ r.rnd_if_htl_above = 1
                   /\ DOMAIN r.connections_by_location = {0}
                   /\ r.connections_by_location[0].peer # this_peer_key}
LiveInit == Init /\ ring \in LiveRings
LiveNext ==
    \/ \E m \in {x \in ReqInitialMsgs(SmPeerKeyLocations) :
                     x.msg.max_hops_to_live = MaxHops} :
           \E env \in Envs(m, ring) :
               JoinRingOp(m, env)
    \/ \E sp \in SendResults : JoinRingOpResumes(sp[1], sp[2])
    \/ \E tx \in TxIds \ used_tx : \E join_op \in JoinOps(ring, tx) :
           \E log_info \in BOOLEAN :
               InitialJoinRequest(join_op, tx, log_info)
    \/ \E sp \in SendResults : InitialJoinRequestResumes(sp[1], sp[2])
    \/ FutureDropped
    \/ Recv
SpecLive ==
    /\ LiveInit /\ [][LiveNext]_vars
    /\ WF_vars(Recv)
    /\ WF_vars(SendReturns)
    /\ \A tx \in TxIds : SF_vars(Expires(tx))

\* ------------------------------ SpecEstimator: the PeerTimeEstimator's calls
\* The events of the model: the contract sits at location 0, so that the peer's
\* location is the distance.
Events ==
    {RoutingEvent(p, l, 0, t) : p \in Peers, l \in Locations, t \in Times}
Repeat(x, n) == [i \in 1..n |-> x]
\* Histories: for each peer, up to MaxHistory repetitions of one of its events.
Histories ==
    LET Runs(p) == {Repeat(ev, n) : ev \in {x \in Events : x.peer = p}, n \in 0..MaxHistory}
        RECURSIVE Join(_)
        Join(S) == IF S = {} THEN {<<>>}
                   ELSE LET p == CHOOSE x \in S : TRUE IN
                        {a \o b : a \in Runs(p), b \in Join(S \ {p})}
    IN Join(Peers)
Queries == 0..(2 * (LocScale \div 2))

\* let estimator = PeerTimeEstimator::new(history)
EstNew(history) ==
    /\ est = None
    /\ est' = Some(new(history))
    /\ recorded' = [p \in Peers |-> PointsOf(PeerPoints(history, p))]
    /\ UNCHANGED <<est_adds, est_last, ck>>
    /\ UNCHANGED appVars
    /\ UNCHANGED smVars
    /\ UNCHANGED nodeVars

\* estimator.add_event(event)
EstAddEvent(event) ==
    /\ est # None
    /\ est_adds < MaxAdds
    /\ est' = Some(add_event(Unwrap(est), event))
    /\ recorded' = [recorded EXCEPT ![event.peer] = PlusPoints(@, PointsOf(<<PointOf(event)>>))]
    /\ est_adds' = est_adds + 1
    /\ est_last' = None
    /\ UNCHANGED ck
    /\ UNCHANGED appVars
    /\ UNCHANGED smVars
    /\ UNCHANGED nodeVars

\* estimator.estimate_retrieval_time(peer, q / 2)
EstEstimate(peer, q) ==
    /\ est # None
    /\ est_last = None
    /\ est_last' = Some([peer |-> peer, q |-> q,
                         result |-> estimate_retrieval_time(Unwrap(est), peer, q)])
    /\ UNCHANGED <<est, recorded, est_adds, ck>>
    /\ UNCHANGED appVars
    /\ UNCHANGED smVars
    /\ UNCHANGED nodeVars

EstInit == SmIdle /\ NodeIdle /\ ExtIdle
EstNext ==
    \/ \E history \in Histories : EstNew(history)
    \/ \E event \in Events : EstAddEvent(event)
    \/ \E peer \in Peers, q \in Queries : EstEstimate(peer, q)
SpecEstimator == EstInit /\ [][EstNext]_vars

\* ------------------------------------ locutus-stdlib: the contract interface
CONTRACT_KEY_SIZE == 64
MaxByte == 1
MaxBytesLen == 2

\* A byte is either a given value (h = "raw") or the v-th byte of the digest of
\* input under the hash h: digests are taken as collision-free, so two digest
\* bytes are equal exactly when hash, position and input are.
RawByte(b) == [h |-> "raw", v |-> b, input |-> <<>>]
RawBytes == {RawByte(b) : b \in 0..MaxByte}
BytesUpTo(n) == UNION {[1..k -> RawBytes] : k \in 0..n}
ByteStrings == BytesUpTo(MaxBytesLen)
ShortStrings == BytesUpTo(1)

\* blake2: Blake2s256 gives 32 bytes, Blake2b512 gives 64; update calls
\* concatenate the input.
OutputSize(alg) == IF alg = "Blake2b512" THEN 64 ELSE 32
Digest(alg, input) ==
    [i \in 1..OutputSize(alg) |-> [h |-> alg, v |-> i, input |-> input]]

\* What a call gives: a value, an error, a panic, or the abort of the process.
CkOk(v) == [kind |-> "ok", val |-> <<v>>, error |-> ""]
CkErr(e) == [kind |-> "err", val |-> <<>>, error |-> e]
CkPanic(m) == [kind |-> "panic", val |-> <<>>, error |-> m]
CkAbort(m) == [kind |-> "abort", val |-> <<>>, error |-> m]
Failed(r) == r.kind # "ok"
Val(r) == Unwrap(r.val)

\* ContractData::gen_key(data): debug_assert_eq! on the digest length in a debug
\* build, copy_from_slice (which panics on a length mismatch) in every build.
gen_key(data, debug_assertions) ==
    LET key_arr == Digest("Blake2s256", data) IN
    IF debug_assertions /\ Len(key_arr) # CONTRACT_KEY_SIZE
    THEN CkPanic("assertion failed: left == right")
    ELSE IF Len(key_arr) # CONTRACT_KEY_SIZE
    THEN CkPanic("source slice length does not match destination slice length")
    ELSE CkOk(key_arr)

\* impl From<Vec<u8>> for ContractData
ContractDataFrom(data, debug_assertions) ==
    LET key == gen_key(data, debug_assertions) IN
    IF Failed(key) THEN key
    ELSE CkOk([data |-> data, key |-> Val(key)])

\* impl From<(T, U)> for ContractKey: the hash of contract.key() then parameters.
ContractKeyFrom(parameters, contract) ==
    LET contract_hash == contract.key
        full_key_arr == Digest("Blake2b512", contract_hash \o parameters)
    IN IF Len(full_key_arr) # CONTRACT_KEY_SIZE
       THEN CkPanic("source slice length does not match destination slice length")
       ELSE CkOk([spec |-> full_key_arr, contract |-> contract_hash])

\* impl PartialEq for ContractSpecification, for ContractData
SpecificationEq(a, b) == a.key = b.key
ContractDataEq(a, b) == a.key = b.key

\* u64, little endian. The model's integers hold three bytes exactly. A length
\* with a higher byte set is above every length of the model, and stands for its
\* class: Large (2^24 and more, below 2^56), BeyondAddressSpace (2^56 and more,
\* up to isize::MAX) or AboveIsizeMax (the top bit set).
U64LE(n) ==
    [i \in 1..8 |-> RawByte(IF i = 1 THEN n % 256
                            ELSE IF i = 2 THEN (n \div 256) % 256
                            ELSE IF i = 3 THEN (n \div 65536) % 256
                            ELSE 0)]
Large == 256 * 65536
BeyondAddressSpace == Large + 1
AboveIsizeMax == Large + 2
U64Value(bs) ==
    IF \A i \in 4..8 : bs[i].v = 0
    THEN bs[1].v + 256 * bs[2].v + 65536 * bs[3].v
    ELSE IF bs[8].v >= 128 THEN AboveIsizeMax
    ELSE IF bs[8].v > 0 THEN BeyondAddressSpace
    ELSE Large
Rest(bytes, n) == SubSeq(bytes, n + 1, Len(bytes))
Read(value, rest) == [value |-> value, rest |-> rest]

\* reader.read_u64::<LittleEndian>() and reader.read_exact(buf) on the rest of
\* the cursor.
read_u64(bytes) ==
    IF Len(bytes) < 8 THEN CkErr("UnexpectedEof")
    ELSE CkOk(Read(U64Value(SubSeq(bytes, 1, 8)), Rest(bytes, 8)))
read_exact(bytes, n) ==
    IF Len(bytes) < n THEN CkErr("UnexpectedEof")
    ELSE CkOk(Read(SubSeq(bytes, 1, n), Rest(bytes, n)))

\* vec![0; len as usize], the buffer that read_exact is to fill: a capacity above
\* isize::MAX panics, a failed allocation aborts the process. An empty buffer
\* allocates nothing; no process has the address space for 2^56 bytes; whether
\* any other buffer is allocated is up to the allocator and the memory the
\* process is allowed (alloc_ok).
vec_zeroed(capacity, alloc_ok) ==
    IF capacity = AboveIsizeMax THEN CkPanic("capacity overflow")
    ELSE IF capacity = BeyondAddressSpace \/ (capacity > 0 /\ ~alloc_ok)
    THEN CkAbort("memory allocation failed")
    ELSE CkOk(capacity)

\* impl TryFrom<Vec<u8>> for ContractSpecification
try_from(data, debug_assertions, alloc_ok) ==
    LET params_len == read_u64(data)
        params_vec == vec_zeroed(Val(params_len).value, alloc_ok)
        params_buf == read_exact(Val(params_len).rest, Val(params_vec))
        parameters == Val(params_buf).value
        contract_len == read_u64(Val(params_buf).rest)
        contract_vec == vec_zeroed(Val(contract_len).value, alloc_ok)
        contract_buf == read_exact(Val(contract_len).rest, Val(contract_vec))
        contract == ContractDataFrom(Val(contract_buf).value, debug_assertions)
        key == ContractKeyFrom(parameters, Val(contract))
    IN IF Failed(params_len) THEN params_len
       ELSE IF Failed(params_vec) THEN params_vec
       ELSE IF Failed(params_buf) THEN params_buf
       ELSE IF Failed(contract_len) THEN contract_len
       ELSE IF Failed(contract_vec) THEN contract_vec
       ELSE IF Failed(contract_buf) THEN contract_buf
       ELSE IF Failed(contract) THEN contract
       ELSE IF Failed(key) THEN key
       ELSE CkOk([parameters |-> parameters, contract |-> Val(contract),
                  key |-> Val(key)])

\* The envelope of the specification: u64 params_len, params, u64 code_len, code.
Envelope(parameters, code) ==
    U64LE(Len(parameters)) \o parameters \o U64LE(Len(code)) \o code

\* bincode::serialize of a byte sequence (<[_]>::serialize, Cow<[u8]>): the length
\* as u64, then the bytes; of ContractKey, ContractData and
\* ContractSpecification: their fields in order.
serialize_bytes(bs) == U64LE(Len(bs)) \o bs
serialize_key(k) == serialize_bytes(k.spec) \o serialize_bytes(k.contract)
serialize_contract_data(c) == serialize_bytes(c.data) \o serialize_bytes(c.key)
serialize_specification(sp) ==
    serialize_bytes(sp.parameters) \o serialize_contract_data(sp.contract)
        \o serialize_key(sp.key)

\* bincode's deserialize of Vec<u8>: the length, then that many bytes.
deserialize_bytes(bytes) ==
    LET n == read_u64(bytes) IN
    IF Failed(n) THEN n ELSE read_exact(Val(n).rest, Val(n).value)
\* Of ArrayVec<u8, 64>: as above, pushing; a push beyond the capacity fails.
deserialize_array_vec(bytes) ==
    LET n == read_u64(bytes) IN
    IF Failed(n) THEN n
    ELSE IF Val(n).value > CONTRACT_KEY_SIZE /\ Len(Val(n).rest) > CONTRACT_KEY_SIZE
    THEN CkErr("invalid length")
    ELSE read_exact(Val(n).rest, Val(n).value)

\* As contract_key_deser, without into_inner's check of the length.
ContractKeyDeserUnchecked(bytes) == deserialize_array_vec(bytes)

\* contract_key_deser: into_inner gives the array only if the ArrayVec is full.
contract_key_deser(bytes) ==
    LET data == deserialize_array_vec(bytes) IN
    IF Failed(data) THEN data
    ELSE IF Len(Val(data).value) # CONTRACT_KEY_SIZE
    THEN CkErr("invalid key length")
    ELSE data

\* derive(Deserialize) for ContractKey, ContractData, ContractSpecification.
deserialize_key(bytes) ==
    LET spec == contract_key_deser(bytes)
        contract == contract_key_deser(Val(spec).rest)
    IN IF Failed(spec) THEN spec
       ELSE IF Failed(contract) THEN contract
       ELSE CkOk(Read([spec |-> Val(spec).value, contract |-> Val(contract).value],
                      Val(contract).rest))
deserialize_contract_data(bytes) ==
    LET data == deserialize_bytes(bytes)
        key == contract_key_deser(Val(data).rest)
    IN IF Failed(data) THEN data
       ELSE IF Failed(key) THEN key
       ELSE CkOk(Read([data |-> Val(data).value, key |-> Val(key).value], Val(key).rest))
deserialize_specification(bytes) ==
    LET parameters == deserialize_bytes(bytes)
        contract == deserialize_contract_data(Val(parameters).rest)
        key == deserialize_key(Val(contract).rest)
    IN IF Failed(parameters) THEN parameters
       ELSE IF Failed(contract) THEN contract
       ELSE IF Failed(key) THEN key
       ELSE CkOk(Read([parameters |-> Val(parameters).value,
                       contract |-> Val(contract).value,
                       key |-> Val(key).value], Val(key).rest))
\* bincode::deserialize: the value read, bytes left over are ignored.
Deserialized(r) == IF Failed(r) THEN r ELSE CkOk(Val(r).value)

\* impl Arbitrary for ContractSpecification, on the bytes that the Unstructured
\* yields for the contract and for the parameters.
arbitrary(data, parameters, debug_assertions) ==
    LET contract == ContractDataFrom(data, debug_assertions)
        key == ContractKeyFrom(parameters, Val(contract))
    IN IF Failed(contract) THEN contract
       ELSE IF Failed(key) THEN key
       ELSE CkOk([parameters |-> parameters, contract |-> Val(contract),
                  key |-> Val(key)])

\* test::contract_ser: the expected value is generated first; the test fails
\* with whatever stops it, and passes when the decoded value equals the expected.
contract_ser(data, parameters, debug_assertions) ==
    LET expected == arbitrary(data, parameters, debug_assertions)
        serialized == serialize_specification(Val(expected))
        deserialized == Deserialized(deserialize_specification(serialized))
    IN IF Failed(expected) THEN expected
       ELSE IF Failed(deserialized) THEN deserialized
       ELSE IF ~SpecificationEq(Val(deserialized), Val(expected))
       THEN CkPanic("assertion failed: left == right")
       ELSE CkOk(Val(deserialized))

\* ------------------------------ SpecContract: calls of the contract interface
\* 64-byte arrays: given bytes, and digests.
KeyArrays ==
    {[i \in 1..CONTRACT_KEY_SIZE |-> RawByte(IF i = CONTRACT_KEY_SIZE THEN b ELSE 0)] :
        b \in 0..MaxByte}
    \cup {Digest("Blake2b512", c) : c \in ShortStrings}
ContractKeys == [spec : KeyArrays, contract : KeyArrays]
\* ContractData and ContractSpecification values, as deserialization gives them:
\* the fields are whatever the bytes held.
ContractDatas ==
    {[data |-> c, key |-> Digest("Blake2b512", c2)] : c \in ShortStrings, c2 \in ShortStrings}
ContractSpecifications ==
    {[parameters |-> pr, contract |-> cd, key |-> Unwrap(ContractKeyFrom(pr, cd).val)] :
        pr \in ShortStrings, cd \in ContractDatas}
Prefixes(bytes) == {SubSeq(bytes, 1, n) : n \in 0..Len(bytes)}
\* Lengths that no input holds the bytes for: 2^40, 2^56 and 2^63.
U64With(i, b) == [k \in 1..8 |-> RawByte(IF k = i THEN b ELSE 0)]
OversizedLengths == {U64With(6, 1), U64With(8, 1), U64With(8, 128)}
\* Envelopes, whole and cut short, and envelopes that declare an oversized
\* length for the parameters or for the code.
TryFromInputs ==
    UNION {Prefixes(Envelope(pr, c)) : pr \in ByteStrings, c \in ByteStrings}
        \cup OversizedLengths \cup {U64LE(0) \o hdr : hdr \in OversizedLengths}
\* Encoded keys whose first field holds n bytes, whole and cut short.
KeyWires ==
    UNION {Prefixes(serialize_bytes([i \in 1..n |-> RawByte(0)])
                        \o serialize_bytes([i \in 1..CONTRACT_KEY_SIZE |-> RawByte(0)])) :
              n \in {0, CONTRACT_KEY_SIZE - 1, CONTRACT_KEY_SIZE, CONTRACT_KEY_SIZE + 1}}

CkCall(call) ==
    /\ ck = None
    /\ ck' = Some(call)
    /\ UNCHANGED <<est, recorded, est_adds, est_last>>
    /\ UNCHANGED appVars
    /\ UNCHANGED smVars
    /\ UNCHANGED nodeVars

\* ContractData::from(code)
CkContractData(code, debug_assertions) ==
    CkCall([op |-> "ContractData::from", code |-> code,
            result |-> ContractDataFrom(code, debug_assertions)])

\* ContractKey::from((parameters, contract)), for two pairs
CkContractKey(p1, c1, p2, c2) ==
    CkCall([op |-> "ContractKey::from",
            parameters |-> <<p1, p2>>, contract |-> <<c1, c2>>,
            result |-> <<ContractKeyFrom(p1, c1), ContractKeyFrom(p2, c2)>>])

\* ContractSpecification::try_from(bytes)
CkTryFrom(bytes, debug_assertions, alloc_ok) ==
    CkCall([op |-> "try_from", bytes |-> bytes,
            result |-> try_from(bytes, debug_assertions, alloc_ok)])

\* test::key_ser: bincode::deserialize(&bincode::serialize(&key))
CkKeySer(key) ==
    CkCall([op |-> "key_ser", key |-> key, serialized |-> serialize_key(key),
            result |-> Deserialized(deserialize_key(serialize_key(key)))])

\* test::contract_ser
CkContractSer(data, parameters, debug_assertions) ==
    CkCall([op |-> "contract_ser", bytes |-> <<data, parameters>>,
            result |-> contract_ser(data, parameters, debug_assertions)])

\* bincode::deserialize(&bincode::serialize(&sp)) with the derived Serialize and
\* Deserialize of ContractSpecification, for a specification value
CkSpecificationSer(sp) ==
    CkCall([op |-> "specification_ser", specification |-> sp,
            serialized |-> serialize_specification(sp),
            result |-> Deserialized(deserialize_specification(serialize_specification(sp)))])

\* bincode::deserialize::<ContractKey>(bytes)
CkDeserializeKey(bytes) ==
    CkCall([op |-> "deserialize key", bytes |-> bytes,
            result |-> Deserialized(deserialize_key(bytes))])

\* bincode::deserialize::<ContractSpecification>(bytes) of a received encoding
CkReceive(bytes) ==
    CkCall([op |-> "deserialize specification", bytes |-> bytes,
            result |-> Deserialized(deserialize_specification(bytes))])

CkInit == SmIdle /\ NodeIdle /\ ExtIdle
CkNext ==
    \/ \E code \in ByteStrings, dbg \in BOOLEAN : CkContractData(code, dbg)
    \/ \E p1 \in ShortStrings, p2 \in ShortStrings, c1 \in ContractDatas, c2 \in ContractDatas :
          CkContractKey(p1, c1, p2, c2)
    \/ \E bytes \in TryFromInputs, dbg \in BOOLEAN, alloc_ok \in BOOLEAN :
          CkTryFrom(bytes, dbg, alloc_ok)
    \/ \E key \in ContractKeys : CkKeySer(key)
    \/ \E data \in ShortStrings, pr \in ShortStrings, dbg \in BOOLEAN :
          CkContractSer(data, pr, dbg)
    \/ \E sp \in ContractSpecifications : CkSpecificationSer(sp)
    \/ \E bytes \in KeyWires : CkDeserializeKey(bytes)
    \/ \E sp \in ContractSpecifications : CkReceive(serialize_specification(sp))
SpecContract == CkInit /\ [][CkNext]_vars

\* ------------------------------------------ core: NodeP2P::build and run_node
\* NodeConfig: the fields that build and run_node read.
NodeConfigs ==
    [is_gateway : BOOLEAN, should_connect : BOOLEAN,
     peer_id : {None} \cup {Some(pr) : pr \in Peers},
     gateways : SUBSET Peers]

\* The NodeP2P that build returns: the fields that run_node reads.
NodeP2P(config) ==
    [should_try_connect |-> config.should_connect,
     peer_id |-> config.peer_id,
     is_gateway |-> config.is_gateway,
     gateways |-> config.gateways]

\* A node task: the build call and the run_node call after it. pc is where the
\* task is; op_manager and contract_handler tell what build has created, spawned
\* the tasks it has handed to the GlobalExecutor, build_result what it returned;
\* then the calls of initial_join_procedure made, what that call gave, whether
\* run_event_listener was started, and what run_node returned.
Building(config) ==
    [config |-> config, pc |-> "build", op_manager |-> FALSE,
     contract_handler |-> FALSE, spawned |-> <<>>, build_result |-> None,
     node |-> None, join_calls |-> 0, join_result |-> None,
     listener_started |-> FALSE, returned |-> None]
BuildErrors == {"build"}
BuildResults == {CkOk("()")} \cup {CkErr(e) : e \in BuildErrors}
JoinErrors == {"join: no gateway", "join: connection"}
ListenerResults == {CkOk("()"), CkErr("event listener")}

\* build, up to its first await: `?` returns the error of OpManager::new;
\* otherwise the OpManager exists and CH::build is awaited.
build(config, op_manager) ==
    IF Failed(op_manager)
    THEN [Building(config) EXCEPT !.pc = "build_failed",
                                  !.build_result = Some(op_manager)]
    ELSE [Building(config) EXCEPT !.pc = "CH::build", !.op_manager = TRUE]

\* build, when CH::build(..).await returns: `?` returns its error; otherwise the
\* contract handler exists and P2pConnManager::build is awaited.
build_contract_handler(task, contract_handler) ==
    IF Failed(contract_handler)
    THEN [task EXCEPT !.pc = "build_failed",
                      !.build_result = Some(contract_handler)]
    ELSE [task EXCEPT !.pc = "P2pConnManager::build", !.contract_handler = TRUE]

\* build, when P2pConnManager::build(..).await returns: `?` returns its error;
\* otherwise the two tasks are spawned and Ok(NodeP2P { .. }) is returned.
build_conn_manager(task, conn_manager) ==
    IF Failed(conn_manager)
    THEN [task EXCEPT !.pc = "build_failed", !.build_result = Some(conn_manager)]
    ELSE [task EXCEPT !.pc = "built",
                      !.spawned = <<"contract_handling", "client_event_handling">>,
                      !.build_result = Some(CkOk("NodeP2P")),
                      !.node = Some(NodeP2P(task.config))]

\* run_node, up to its first await: if self.should_try_connect, the initial join
\* procedure is called with the gateways; otherwise the event listener is run.
run_node(task) ==
    IF Unwrap(task.node).should_try_connect
    THEN [task EXCEPT !.pc = "initial_join_procedure", !.join_calls = @ + 1]
    ELSE [task EXCEPT !.pc = "run_event_listener", !.listener_started = TRUE]

\* As run_node_joined, with the result of the join procedure dropped.
RunNodeJoinedIgnoring(task, result) ==
    [task EXCEPT !.join_result = Some(result),
                 !.pc = "run_event_listener", !.listener_started = TRUE]

\* run_node, when initial_join_procedure(..).await returns: `?` returns the error,
\* Ok goes on to run the event listener.
run_node_joined(task, result) ==
    IF Failed(result)
    THEN [task EXCEPT !.join_result = Some(result), !.pc = "returned",
                      !.returned = Some(result)]
    ELSE [task EXCEPT !.join_result = Some(result),
                      !.pc = "run_event_listener", !.listener_started = TRUE]

\* run_node, when run_event_listener(..).await returns: its result is run_node's.
run_node_listened(task, result) ==
    [task EXCEPT !.pc = "returned", !.returned = Some(result)]

P2pStep(task) ==
    /\ p2p' = Some(task)
    /\ UNCHANGED <<est, recorded, est_adds, est_last, ck, inbox, inbox_last>>
    /\ UNCHANGED smVars
    /\ UNCHANGED nodeVars

P2pBuild(config, op_manager) ==
    /\ p2p = None
    /\ P2pStep(build(config, op_manager))
P2pContractHandlerReturns(result) ==
    /\ p2p # None
    /\ Unwrap(p2p).pc = "CH::build"
    /\ P2pStep(build_contract_handler(Unwrap(p2p), result))
P2pConnManagerReturns(result) ==
    /\ p2p # None
    /\ Unwrap(p2p).pc = "P2pConnManager::build"
    /\ P2pStep(build_conn_manager(Unwrap(p2p), result))
\* The future of build is dropped at one of its awaits: what it has created is
\* dropped with it, and nothing was spawned.
P2pBuildDropped ==
    /\ p2p # None
    /\ Unwrap(p2p).pc \in {"CH::build", "P2pConnManager::build"}
    /\ P2pStep([Unwrap(p2p) EXCEPT !.pc = "dropped"])
P2pRunNode ==
    /\ p2p # None
    /\ Unwrap(p2p).pc = "built"
    /\ P2pStep(run_node(Unwrap(p2p)))
P2pJoinReturns(result) ==
    /\ p2p # None
    /\ Unwrap(p2p).pc = "initial_join_procedure"
    /\ P2pStep(run_node_joined(Unwrap(p2p), result))
P2pListenerReturns(result) ==
    /\ p2p # None
    /\ Unwrap(p2p).pc = "run_event_listener"
    /\ P2pStep(run_node_listened(Unwrap(p2p), result))

P2pInit == SmIdle /\ NodeIdle /\ ExtIdle
P2pNext ==
    \/ \E config \in NodeConfigs, result \in BuildResults : P2pBuild(config, result)
    \/ \E result \in BuildResults : P2pContractHandlerReturns(result)
    \/ \E result \in BuildResults : P2pConnManagerReturns(result)
    \/ P2pBuildDropped
    \/ P2pRunNode
    \/ \E result \in {CkOk("()")} \cup {CkErr(e) : e \in JoinErrors} : P2pJoinReturns(result)
    \/ \E result \in ListenerResults : P2pListenerReturns(result)
SpecNodeP2P == P2pInit /\ [][P2pNext]_vars

\* --------------------------------------- freenet-email-app: the InboxModel
MaxStored == 3
MaxMsgId == 4
MaxHash == 1

\* A message is its id and the assignment_hash of its token assignment; the
\* content plays no part in the calls modelled.
MessageModel(msg_id, token_assignment) ==
    [id |-> msg_id, assignment_hash |-> token_assignment]
Hashes == 0..MaxHash
\* What the content of a StoredMessage holds, the nonce (24 bytes), the
\* encrypted key (512 bytes) and the ciphertext: "sealed" is a message sealed for
\* the private key; the others are cut short before the end of the nonce or of
\* the key, carry a key that the private key does not decrypt or that is not of
\* 32 bytes, a ciphertext that does not authenticate, or a plaintext that is not
\* a DecryptedMessage.
Contents ==
    {"sealed", "no_nonce", "no_key", "foreign_key", "key_length", "forged", "not_json"}
StoredMessage(content, token_assignment) ==
    [content |-> content, token_assignment |-> token_assignment]
StoredMessages == {StoredMessage(c, h) : c \in Contents, h \in Hashes}
\* StoredInbox::messages; the settings play no part.
StoredInboxes == UNION {[1..n -> StoredMessages] : n \in 0..MaxStored}
\* An RsaPrivateKey, by whether its public key has a PKCS#1 PEM encoding.
PrivateKeys == {"encodable", "unencodable"}
MsgIds == 0..MaxMsgId
IdLists == UNION {[1..n -> MsgIds] : n \in 0..2}

\* InternalSettings::from_stored(stored_settings, next_id, private_key)
from_stored(next_id) == CkOk(next_id)

\* The closure that from_state maps over the stored messages: `?` returns the
\* error of read_exact, of read_to_end (which fails only if the Vec it fills
\* cannot grow), of the two decryptions and of serde_json::from_slice;
\* GenericArray::from_slice panics on a key that is not of 32 bytes.
decrypt_stored(msg_id, msg, read_to_end) ==
    IF msg.content \in {"no_nonce", "no_key"}
    THEN CkErr("failed to fill whole buffer")
    ELSE IF Failed(read_to_end) THEN read_to_end
    ELSE IF msg.content = "foreign_key" THEN CkErr("decryption error")
    ELSE IF msg.content = "key_length"
    THEN CkPanic("assertion failed: left == right")
    ELSE IF msg.content = "forged" THEN CkErr("aead::Error")
    ELSE IF msg.content = "not_json" THEN CkErr("serde_json")
    ELSE CkOk(MessageModel(msg_id, msg.token_assignment))

\* InboxModel::from_state(private_key, state, key): the unwrap of to_pkcs1_pem
\* panics on its error; collect stops at the first message that fails; the ids
\* are the positions, next_msg_id the number of messages.
from_state(private_key, state, read_to_end) ==
    LET messages ==
            [i \in 1..Len(state) |-> decrypt_stored(i - 1, state[i], read_to_end)]
        failing == {i \in 1..Len(state) : Failed(messages[i])}
        settings == from_stored(Len(state))
    IN IF private_key = "unencodable"
       THEN CkPanic("called Result::unwrap() on an Err value")
       ELSE IF failing # {}
       THEN messages[CHOOSE i \in failing : \A j \in failing : i <= j]
       ELSE IF Failed(settings) THEN settings
       ELSE CkOk([messages |-> [i \in 1..Len(state) |-> Val(messages[i])],
                  next_msg_id |-> Val(settings)])

\* tests::InboxModel::new(private_key): `?` returns the error of the conversion
\* of the InboxParams.
new_inbox(params) ==
    IF Failed(params) THEN params
    ELSE CkOk([messages |-> <<>>, next_msg_id |-> 0])
\* tests::remove_msg: inbox.messages.push(MessageModel { id, .. }) for the next
\* id of its loop.
test_push(model) ==
    [model EXCEPT !.messages = Append(@, MessageModel(Len(@), 0))]

\* As add_received_message, with the id taken from the length of the list.
AddReceivedMessageAtLen(model, token_assignment) ==
    [messages |-> Append(model.messages,
                         MessageModel(Len(model.messages), token_assignment)),
     next_msg_id |-> model.next_msg_id + 1]

\* InboxModel::add_received_message(content, token_assignment)
add_received_message(model, token_assignment) ==
    [messages |-> Append(model.messages,
                         MessageModel(model.next_msg_id, token_assignment)),
     next_msg_id |-> model.next_msg_id + 1]

\* [T]::binary_search_by_key(id, |a| a.id): Some(0-based position) or None.
binary_search_by_key(messages, msg_id) ==
    LET RECURSIVE Search(_, _)
        Search(left, right) ==
            IF left >= right THEN None
            ELSE LET mid == left + ((right - left) \div 2)
                     key == messages[mid + 1].id
                 IN IF key < msg_id THEN Search(mid + 1, right)
                    ELSE IF key > msg_id THEN Search(left, mid)
                    ELSE Some(mid)
    IN Search(0, Len(messages))
\* Vec::remove(p), p 0-based.
RemoveAt(messages, p) ==
    [i \in 1..(Len(messages) - 1) |-> IF i <= p THEN messages[i] ELSE messages[i + 1]]

\* As remove_received_message, with a single id taken as the position.
RemoveReceivedAtId(model, ids) ==
    IF Len(ids) > 1
    THEN LET drop == {ids[i] : i \in 1..Len(ids)}
             Kept(a) == a.id \notin drop
         IN [model EXCEPT !.messages = SelectSeq(model.messages, Kept)]
    ELSE IF Len(ids) = 1 /\ ids[1] < Len(model.messages)
    THEN [model EXCEPT !.messages = RemoveAt(model.messages, ids[1])]
    ELSE model

\* InboxModel::remove_received_message(ids)
remove_received_message(model, ids) ==
    IF Len(ids) > 1
    THEN LET drop == {ids[i] : i \in 1..Len(ids)}
             Kept(a) == a.id \notin drop
         IN [model EXCEPT !.messages = SelectSeq(model.messages, Kept)]
    ELSE IF Len(ids) = 1
    THEN LET p == binary_search_by_key(model.messages, ids[1]) IN
         IF IsSome(p)
         THEN [model EXCEPT !.messages = RemoveAt(model.messages, Unwrap(p))]
         ELSE model
    ELSE model

\* InboxModel::remove_messages(client, ids): the model after the call, the
\* UpdateInbox::RemoveMessages delta of the request that the returned future
\* sends (built with feature use-node only), and the result: `?` returns the
\* error of serde_json::to_vec(&delta), the messages already removed.
remove_messages(model, ids, use_node, to_vec) ==
    LET after == remove_received_message(model, ids)
        hashes == [i \in 1..Len(after.messages) |-> after.messages[i].assignment_hash]
    IN [model |-> after,
        delta |-> IF use_node /\ ~Failed(to_vec)
                  THEN Some([signed |-> hashes, ids |-> hashes])
                  ELSE None,
        result |-> IF use_node /\ Failed(to_vec) THEN to_vec ELSE CkOk("future")]

\* A call of the InboxModel: the model it leaves (none when a constructor
\* fails), and the record of the call with what it gave, the constructor that
\* made the model and the ids assigned so far.
InboxCall(op, model, ids, delta, assigned, result) ==
    /\ inbox' = model
    /\ inbox_last' = Some([op |-> op, ids |-> ids,
                           before |-> IF inbox = None THEN <<>> ELSE Unwrap(inbox).messages,
                           delta |-> delta, assigned |-> assigned,
                           result |-> [kind |-> result.kind, error |-> result.error],
                           origin |-> IF op \in {"from_state", "new"} THEN op
                                      ELSE Unwrap(inbox_last).origin])
    /\ UNCHANGED <<est, recorded, est_adds, est_last, ck, p2p>>
    /\ UNCHANGED smVars
    /\ UNCHANGED nodeVars

InboxFromState(private_key, state, read_to_end) ==
    /\ inbox = None
    /\ LET made == from_state(private_key, state, read_to_end) IN
       InboxCall("from_state", made.val, <<>>, None,
                 IF Failed(made) THEN {} ELSE 0..(Len(state) - 1), made)
\* The InboxModel of tests::remove_msg: new, then the pushes of its loop.
InboxNew(params) ==
    /\ inbox = None
    /\ LET made == new_inbox(params) IN
       InboxCall("new", made.val, <<>>, None, {}, made)
InboxTestPush ==
    /\ inbox # None
    /\ Unwrap(inbox_last).op \in {"new", "push"}
    /\ Len(Unwrap(inbox).messages) <= MaxStored
    /\ InboxCall("push", Some(test_push(Unwrap(inbox))), <<>>, None,
                 Unwrap(inbox_last).assigned, CkOk("()"))
\* add_received_message has no caller yet; the model built by the tests' new is
\* used by remove_msg alone, which does not call it.
InboxAdd(token_assignment) ==
    /\ inbox # None
    /\ Unwrap(inbox_last).origin = "from_state"
    /\ Unwrap(inbox).next_msg_id <= MaxMsgId
    /\ InboxCall("add_received_message",
                 Some(add_received_message(Unwrap(inbox), token_assignment)), <<>>, None,
                 Unwrap(inbox_last).assigned \cup {Unwrap(inbox).next_msg_id}, CkOk("()"))
InboxRemoveReceived(ids) ==
    /\ inbox # None
    /\ InboxCall("remove_received_message",
                 Some(remove_received_message(Unwrap(inbox), ids)), ids, None,
                 Unwrap(inbox_last).assigned, CkOk("()"))
InboxRemoveMessages(ids, use_node, to_vec) ==
    /\ inbox # None
    /\ LET done == remove_messages(Unwrap(inbox), ids, use_node, to_vec) IN
       InboxCall("remove_messages", Some(done.model), ids, done.delta,
                 Unwrap(inbox_last).assigned, done.result)

InboxInit == SmIdle /\ NodeIdle /\ ExtIdle
InboxNext ==
    \/ \E private_key \in PrivateKeys, state \in StoredInboxes,
          read_to_end \in {CkOk("content"), CkErr("out of memory")} :
          InboxFromState(private_key, state, read_to_end)
    \/ \E params \in {CkOk("params"), CkErr("params")} : InboxNew(params)
    \/ InboxTestPush
    \/ \E token_assignment \in Hashes : InboxAdd(token_assignment)
    \/ \E ids \in IdLists : InboxRemoveReceived(ids)
    \/ \E ids \in IdLists, use_node \in BOOLEAN :
          \E to_vec \in IF use_node THEN {CkOk("delta"), CkErr("serde_json")}
                         ELSE {CkOk("delta")} :
              InboxRemoveMessages(ids, use_node, to_vec)
SpecInbox == InboxInit /\ [][InboxNext]_vars

\* ================================================================ claims
Rank(tag) ==
    CASE tag = "Initializing" -> 0
      [] tag = "Connecting" -> 1
      [] tag = "OCReceived" -> 2
      [] tag = "Connected" -> 3

\* C1: Connected is terminal and absorbing: a machine in state Connected that
\* consumes any input returns an error, emits nothing and stays Connected.
C1_ConnectedAbsorbing ==
    IsSome(sm_last) =>
        LET l == Unwrap(sm_last) IN
        l.before.tag = "Connected" =>
            /\ ~l.ok
            /\ l.output = None
            /\ sm[l.host] = Connected

C1_Witness ==
    /\ IsSome(sm_last)
    /\ Unwrap(sm_last).before.tag = "Connected"
    /\ Unwrap(sm_last).input = ConnectedMsg
    /\ ~Unwrap(sm_last).ok

\* C2: the three-way handshake of two fresh machines: host_1 consumes
\* Req::Initial{target_loc = h1, req_peer = h2} and emits
\* Resp{ReceivedOC{by_peer = h1}, sender = (h2, no location)} with the request's
\* id, moving to Connecting; host_2 consumes it, emits Connected and moves to
\* OCReceived; host_1 consumes Connected, emits Connected and moves to Connected;
\* host_2 consumes that Connected and moves to Connected.
C2_Handshake ==
    hs_step \in 1..4 =>
        LET req == Unwrap(hs_req)
            l == Unwrap(sm_last) IN
        /\ IsSome(sm_last) /\ l.ok
        /\ hs_step = 1 =>
            /\ l.host = "host_1" /\ l.before = INITIAL_STATE
            /\ sm["host_1"].tag = "Connecting"
            /\ wire = Some([to |-> "host_2",
                            msg |-> Resp(req.id,
                                         PeerKeyLocation(req.msg.req_peer, None),
                                         JoinResponseReceivedOC(req.msg.target_loc))])
        /\ hs_step = 2 =>
            /\ l.host = "host_2" /\ l.before = INITIAL_STATE
            /\ sm["host_2"] = OCReceived
            /\ wire = Some([to |-> "host_1", msg |-> ConnectedMsg])
        /\ hs_step = 3 =>
            /\ l.host = "host_1" /\ l.input = ConnectedMsg
            /\ sm["host_1"] = Connected
            /\ wire = Some([to |-> "host_2", msg |-> ConnectedMsg])
        /\ hs_step = 4 =>
            /\ l.host = "host_2" /\ l.input = ConnectedMsg
            /\ sm["host_2"] = Connected
            /\ sm["host_1"] = Connected

C2_Witness ==
    /\ hs_step = 4
    /\ sm["host_1"] = Connected
    /\ sm["host_2"] = Connected
    /\ Unwrap(hs_req).msg.hops_to_live # Unwrap(hs_req).msg.max_hops_to_live

\* C3 (as stated): a machine in Connecting that consumes a Resp carrying
\* JoinResponse::Initial moves to OCReceived.
C3_Original ==
    IsSome(sm_last) =>
        LET l == Unwrap(sm_last) IN
        (l.before.tag = "Connecting" /\ IsResp(l.input, "Initial")) =>
            (l.ok /\ sm[l.host] = OCReceived)

\* C3 (amended): states only move forward along Initializing -> Connecting ->
\* OCReceived -> Connected; Initializing -> Connecting is taken exactly on
\* Req::Initial, Connecting -> OCReceived exactly on a Resp carrying
\* JoinResponse::ReceivedOC, and OCReceived -> Connected on Connected; a Resp
\* carrying JoinResponse::Initial is rejected in every state, which it leaves as it was.
C3_JoinerPath ==
    IsSome(sm_last) =>
        LET l == Unwrap(sm_last)
            after == sm[l.host] IN
        /\ l.ok => Rank(after.tag) > Rank(l.before.tag)
        /\ ~l.ok => after = l.before
        /\ l.before.tag = "Initializing" =>
            (after.tag = "Connecting" <=> IsReqInitial(l.input))
        /\ l.before.tag = "Connecting" =>
            (after.tag = "OCReceived" <=> IsResp(l.input, "ReceivedOC"))
        /\ (l.before.tag = "OCReceived" /\ l.input = ConnectedMsg) => after = Connected
        /\ IsResp(l.input, "Initial") => ~l.ok

C3_Witness ==
    /\ IsSome(sm_last)
    /\ Unwrap(sm_last).before.tag = "Connecting"
    /\ IsResp(Unwrap(sm_last).input, "ReceivedOC")
    /\ sm[Unwrap(sm_last).host] = OCReceived

\* The latest call, when it was a call of the routine op.
Called(op) == IsSome(last) /\ Unwrap(last).op = op
\* update_state returned Err inside the latest join_ring_op.
UpdateFailed ==
    /\ Called("join_ring_op")
    /\ IsSome(Unwrap(last).result)
    /\ Unwrap(Unwrap(last).result).kind = "err"
\* update_state returned a return message and a state inside the latest join_ring_op.
UpdateKept ==
    /\ Called("join_ring_op")
    /\ IsSome(Unwrap(last).result)
    /\ Unwrap(Unwrap(last).result).kind = "ok"
    /\ IsSome(Unwrap(Unwrap(last).result).return_msg)
    /\ IsSome(Unwrap(Unwrap(last).result).state)
\* Every send of the latest routine returned Ok; one of them returned Err.
AllSent == \A i \in 1..Len(outbox) : outbox[i].returned /\ outbox[i].ok
FailedSend == \E i \in 1..Len(outbox) : outbox[i].returned /\ ~outbox[i].ok

\* C4: after every dispatcher step no operation held in OpStorage is in state
\* Connected.
C4_NoConnectedStored ==
    \A tx \in DOMAIN op_storage :
        op_storage[tx].variant = "JoinRing" =>
            Unwrap(op_storage[tx].state).tag # "Connected"

\* A request arrived for the transaction of a stored Connecting operation, and the
\* operation is back in the storage.
C4_Witness ==
    /\ Called("join_ring_op")
    /\ Unwrap(last).outcome = "ok"
    /\ IsSome(Unwrap(last).popped)
    /\ Unwrap(Unwrap(Unwrap(last).popped).state).tag = "Connecting"
    /\ Unwrap(Unwrap(last).tx) \in DOMAIN op_storage

\* C5: when update_state returns an error inside join_ring_op, OpStorage has no
\* entry for the message's transaction afterwards, whether or not it had one.
C5_ErrorDropsOp ==
    UpdateFailed => Unwrap(Unwrap(last).tx) \notin DOMAIN op_storage

C5_Witness ==
    /\ UpdateFailed
    /\ IsSome(Unwrap(last).popped)
    /\ Unwrap(Unwrap(last).tx) \notin DOMAIN op_storage

\* C6 (as stated): whenever update_state fails inside join_ring_op, Canceled(tx)
\* is sent back, for Req messages as well as Resp messages.
C6_CanceledSent ==
    UpdateFailed =>
        \E i \in 1..Len(outbox) : outbox[i].msg = Canceled(Unwrap(Unwrap(last).tx))

\* C7: when update_state returns a return message and a state, join_ring_op
\* hands the message to send, addressed to the return message's sender, and, the
\* send having returned Ok, pushes the state under the transaction id of the
\* processed message: unless the push itself returns an error the call returns
\* Ok and a later pop finds the state.
C7_ReplyThenStore ==
    UpdateKept =>
        LET l == Unwrap(last)
            res == Unwrap(l.result)
            msg == Unwrap(res.return_msg)
            tx == Unwrap(id(Unwrap(l.msg))) IN
        /\ IsSome(sender(msg.inner).val) =>
               /\ Len(outbox) = 1
               /\ outbox[1].to = Unwrap(sender(msg.inner).val)
               /\ outbox[1].msg = msg
        /\ AllSent => (l.outcome = "ok" \/ l.error = "push")
        /\ (AllSent /\ Unwrap(l.env).push_ok) =>
               /\ l.outcome = "ok"
               /\ tx \in DOMAIN op_storage
               /\ op_storage[tx] = OperationJoinRing(Unwrap(res.state))
               /\ pop(op_storage, tx).op = Some(OperationJoinRing(Unwrap(res.state)))

C7_Witness ==
    /\ UpdateKept
    /\ Len(outbox) = 1
    /\ AllSent
    /\ Unwrap(last).popped = None
    /\ Unwrap(Unwrap(last).tx) \in DOMAIN op_storage

\* C9 (as stated): every JoinRingMsg variant carries a Transaction, so
\* join_ring_op obtains the transaction id of any message it is given, a
\* Connected message included, and goes on to look its operation up.
C9_EveryMsgHasTx ==
    Called("join_ring_op") =>
        /\ IsSome(id(Unwrap(Unwrap(last).msg)))
        /\ IsSome(Unwrap(last).tx)

\* C10: the Req::Initial sent by initial_join_request carries the transaction id
\* under which the joiner's operation is pushed, and every message join_ring_op
\* sends while handling a message of transaction tx carries tx.
C10_OneTransaction ==
    /\ Called("initial_join_request") =>
           LET l == Unwrap(last) IN
           /\ \A i \in 1..Len(outbox) :
                  /\ IsReqInitial(outbox[i].msg.inner)
                  /\ id(outbox[i].msg.inner) = l.tx
           /\ l.outcome = "ok" =>
                  /\ Len(outbox) = 1
                  /\ Unwrap(l.tx) \in DOMAIN op_storage
                  /\ op_storage[Unwrap(l.tx)] = OperationJoinRing(Unwrap(l.join_op))
    /\ (Called("join_ring_op") /\ IsSome(Unwrap(last).tx)) =>
           LET l == Unwrap(last) IN
           /\ l.tx = id(Unwrap(l.msg))
           /\ \A i \in 1..Len(outbox) : MessageId(outbox[i].msg) = l.tx

\* The joiner's request went out and its operation is stored.
C10_Witness ==
    /\ Called("initial_join_request")
    /\ Unwrap(last).outcome = "ok"
    /\ Len(outbox) = 1
    /\ DOMAIN op_storage = {Unwrap(Unwrap(last).tx)}

\* update_state ran on a Req::Initial inside the latest join_ring_op.
HandledReqInitial ==
    /\ Called("join_ring_op")
    /\ IsReqInitial(Unwrap(Unwrap(last).msg))
    /\ IsSome(Unwrap(last).result)
\* The state update_state was given: the stored one, or a fresh machine's.
GivenState ==
    IF IsSome(Unwrap(last).popped)
    THEN Unwrap(Unwrap(Unwrap(last).popped).state)
    ELSE INITIAL_STATE
\* A Req::Proxy is among the messages handed to send.
ProxySent == \E i \in 1..Len(outbox) : IsReqProxy(outbox[i].msg.inner)

\* C11: when a peer handles Req::Initial and answers with Resp::Initial, the
\* accepted_by list of the answer is exactly the peer's own PeerKeyLocation (the
\* request's target_loc) if should_accept(my_loc, joiner_loc) holds for the newly
\* assigned joiner location, and is empty otherwise.
C11_AcceptedBy ==
    (HandledReqInitial /\ UpdateKept) =>
        LET l == Unwrap(last)
            req == Unwrap(l.msg).msg
            resp == Unwrap(Unwrap(l.result).return_msg).inner
            joiner_loc == Unwrap(l.env).new_location IN
        /\ IsResp(resp, "Initial")
        /\ resp.msg.accepted_by =
               IF should_accept(ring, Unwrap(req.target_loc.location), joiner_loc)
               THEN <<req.target_loc>> ELSE <<>>

\* A peer whose neighbor table is full of closer neighbors answered with an empty list.
C11_Witness ==
    /\ HandledReqInitial /\ UpdateKept
    /\ DOMAIN ring.connections_by_location # {}
    /\ Unwrap(Unwrap(Unwrap(last).result).return_msg).inner.msg.accepted_by = <<>>

\* C12 (as stated): a peer handling Req::Initial with hops_to_live = 0, or with an
\* empty neighbor table, sends no Req::Proxy, sends a Resp::Initial and keeps its
\* operation in the storage.
C12_Original ==
    (HandledReqInitial
        /\ (Unwrap(Unwrap(last).msg).msg.hops_to_live = 0
                \/ DOMAIN ring.connections_by_location = {})) =>
        /\ ~ProxySent
        /\ \E i \in 1..Len(outbox) : IsResp(outbox[i].msg.inner, "Initial")
        /\ Unwrap(Unwrap(last).tx) \in DOMAIN op_storage

\* C12 (amended): a peer handling Req::Initial with hops_to_live = 0, or with an
\* empty neighbor table, sends no Req::Proxy. If the request's target_loc has a
\* location, update_state returns a Resp::Initial with the state it was given,
\* join_ring_op hands that response to send and, the send and the push after it
\* having returned Ok, the operation is stored under the transaction; if the send
\* or the push returns an error, or the call is dropped at the send, no operation
\* is kept. If target_loc has no location the request fails with
\* TxUpdateFailure: nothing is sent and no operation is kept.
C12_NoForwardReply ==
    (HandledReqInitial
        /\ (Unwrap(Unwrap(last).msg).msg.hops_to_live = 0
                \/ DOMAIN ring.connections_by_location = {})) =>
        LET l == Unwrap(last)
            req == Unwrap(l.msg).msg
            res == Unwrap(l.result)
            tx == Unwrap(l.tx) IN
        /\ ~ProxySent
        /\ req.target_loc.location = None =>
               /\ res.kind = "err" /\ l.error = "TxUpdateFailure"
               /\ outbox = <<>>
               /\ tx \notin DOMAIN op_storage
        /\ req.target_loc.location # None =>
               /\ UpdateKept
               /\ IsResp(Unwrap(res.return_msg).inner, "Initial")
               /\ res.state = Some(GivenState)
               /\ Len(outbox) = 1
               /\ outbox[1].msg = Unwrap(res.return_msg)
               /\ (AllSent /\ Unwrap(l.env).push_ok) =>
                      /\ l.outcome = "ok"
                      /\ tx \in DOMAIN op_storage
                      /\ op_storage[tx] = OperationJoinRing(GivenState)
               /\ (FailedSend \/ (AllSent /\ ~Unwrap(l.env).push_ok)) =>
                      /\ l.outcome = "err"
                      /\ tx \notin DOMAIN op_storage
               /\ l.outcome = "dropped" =>
                      /\ ~outbox[1].returned
                      /\ tx \notin DOMAIN op_storage

\* A request with hops_to_live = 0 reached a peer that has a neighbor, and was answered.
C12_Witness ==
    /\ HandledReqInitial
    /\ Unwrap(Unwrap(last).msg).msg.hops_to_live = 0
    /\ DOMAIN ring.connections_by_location # {}
    /\ UpdateKept /\ AllSent
    /\ Unwrap(Unwrap(last).tx) \in DOMAIN op_storage

\* The neighbors a request of req_peer may be forwarded to.
ForwardCandidates(req_peer) ==
    {ring.connections_by_location[l] : l \in DOMAIN ring.connections_by_location}
        \ {p \in PeerKeyLocations : p.peer = req_peer}

\* C13 (as stated): when hops_to_live is above 0 and below rnd_if_htl_above and
\* some neighbor other than the requester exists, the request is forwarded, to a
\* neighbor other than the requester whose location is closest by arc distance
\* to the joiner's assigned location. (Rings with max_hops_to_live = 0, where the
\* forwarded hops_to_live cannot be computed, are left aside.)
C13_ClosestNeighbor ==
    (HandledReqInitial
        /\ Unwrap(Unwrap(last).msg).msg.target_loc.location # None
        /\ Unwrap(Unwrap(last).msg).msg.hops_to_live > 0
        /\ Unwrap(Unwrap(last).msg).msg.hops_to_live < ring.rnd_if_htl_above
        /\ ring.max_hops_to_live > 0
        /\ ForwardCandidates(Unwrap(Unwrap(last).msg).msg.req_peer) # {}) =>
        LET candidates == ForwardCandidates(Unwrap(Unwrap(last).msg).msg.req_peer)
            joiner_loc == Unwrap(Unwrap(last).env).new_location IN
        \E i \in 1..Len(outbox) :
            /\ IsReqProxy(outbox[i].msg.inner)
            /\ outbox[i].to \in candidates
            /\ \A c \in candidates :
                   distance(Unwrap(outbox[i].to.location), joiner_loc)
                       <= distance(Unwrap(c.location), joiner_loc)

\* C14 (as stated): a forwarded Req::Proxy carries the transaction of the
\* request, the joiner's PeerKeyLocation (req_peer with the newly assigned
\* location) and hops_to_live = min(received hops_to_live, the ring's
\* max_hops_to_live) - 1.
C14_ForwardedProxy ==
    (HandledReqInitial /\ ProxySent) =>
        LET l == Unwrap(last)
            req == Unwrap(l.msg).msg
            min_htl == IF req.hops_to_live < ring.max_hops_to_live
                       THEN req.hops_to_live ELSE ring.max_hops_to_live IN
        /\ Len(outbox) = 1
        /\ outbox[1].msg.inner =
               Req(Unwrap(l.tx),
                   JoinRequestProxy(
                       PeerKeyLocation(req.req_peer, Some(Unwrap(l.env).new_location)),
                       min_htl - 1))

\* C15 (as stated): after a peer has forwarded a Req::Proxy to a neighbor,
\* handling the request completes normally, the peer keeps running and its
\* operation for the transaction is in OpStorage in state Connecting.
C15_ForwarderKeepsOp ==
    (HandledReqInitial /\ ProxySent /\ AllSent) =>
        /\ Unwrap(last).outcome = "ok"
        /\ ~panicked
        /\ Unwrap(Unwrap(last).tx) \in DOMAIN op_storage
        /\ op_storage[Unwrap(Unwrap(last).tx)].variant = "JoinRing"
        /\ Unwrap(op_storage[Unwrap(Unwrap(last).tx)].state).tag = "Connecting"

\* C16 (as stated): a peer that does not forward sends its Resp::Initial to the
\* requesting peer req_peer, with your_peer_id = req_peer and your_location = the
\* location newly assigned to the joiner.
C16_ReplyToJoiner ==
    (HandledReqInitial /\ UpdateKept) =>
        LET l == Unwrap(last)
            req == Unwrap(l.msg).msg
            resp == Unwrap(Unwrap(l.result).return_msg).inner IN
        /\ Len(outbox) = 1
        /\ outbox[1].msg.inner = resp
        /\ outbox[1].to.peer = req.req_peer
        /\ resp.msg.your_peer_id = req.req_peer
        /\ resp.msg.your_location = Unwrap(l.env).new_location

\* C17 (as stated): an operation that join_ring_op creates for an incoming
\* Req::Initial and stores in OpStorage is not in state Initializing once the
\* request has been handled.
C17_NeverInitializing ==
    (HandledReqInitial
        /\ Unwrap(last).popped = None
        /\ Unwrap(Unwrap(last).tx) \in DOMAIN op_storage) =>
        Unwrap(op_storage[Unwrap(Unwrap(last).tx)].state).tag # "Initializing"

\* C18 (as stated): a machine that started by consuming Req::Initial emits the
\* Connected message at most once, whatever it consumes afterwards.
C18_ConnectedOnce ==
    \A h \in Hosts : sm_hist[h].started => sm_hist[h].connected_out <= 1

\* C19 (as stated): when a send fails inside join_ring_op (of the return message
\* or of a forwarded request), the operation of the transaction is in OpStorage
\* afterwards.
C19_FailedSendKeepsOp ==
    (Called("join_ring_op") /\ IsSome(Unwrap(last).tx) /\ FailedSend) =>
        Unwrap(Unwrap(last).tx) \in DOMAIN op_storage

\* C20 (as stated): every operation pushed into OpStorage is eventually removed
\* from it, even if no further message for its transaction ever arrives: its
\* deadline expires.
C20_EventuallyRemoved ==
    \A tx \in TxIds : (tx \in DOMAIN op_storage) ~> (tx \notin DOMAIN op_storage)

\* ---------------------------------------------------------------- C21..C25
\* The estimator and the call that est_last records.
Estimated == est_last # None
EstPeerRegression(p) == Unwrap(est).peer_regressions[p]
EstGlobal == Unwrap(est).global_regression
RecordedFor(p) == CountPoints(recorded[p])
RecordedTotal ==
    LET RECURSIVE Sum(_)
        Sum(S) == IF S = {} THEN 0
                  ELSE LET p == CHOOSE x \in S : TRUE IN
                       RecordedFor(p) + Sum(S \ {p})
    IN Sum(Peers)
RecordedAll ==
    LET RECURSIVE Sum(_)
        Sum(S) == IF S = {} THEN NoPoints
                  ELSE LET p == CHOOSE x \in S : TRUE IN
                       PlusPoints(recorded[p], Sum(S \ {p}))
    IN Sum(Peers)

\* C21: estimate_retrieval_time(peer, d) returns the interpolation of the peer's
\* regression when the peer has one; otherwise that of the global regression
\* when it holds more than MIN_PEER_POINTS_FOR_REGRESSION points; otherwise None.
\* With more than that many events recorded in total it returns Some.
C21_Estimate ==
    Estimated =>
        LET r == Unwrap(est_last)
            own == EstPeerRegression(r.peer)
        IN /\ IsSome(own) => r.result = Some(interpolate(Unwrap(own), r.q))
           /\ (~IsSome(own) /\ len(EstGlobal) > MIN_PEER_POINTS_FOR_REGRESSION) =>
                  r.result = Some(interpolate(EstGlobal, r.q))
           /\ (~IsSome(own) /\ len(EstGlobal) <= MIN_PEER_POINTS_FOR_REGRESSION) =>
                  r.result = None
           /\ RecordedTotal > MIN_PEER_POINTS_FOR_REGRESSION => IsSome(r.result)
\* A peer without a regression of its own is answered from the global one.
C21_Witness ==
    /\ Estimated
    /\ ~IsSome(EstPeerRegression(Unwrap(est_last).peer))
    /\ RecordedFor(Unwrap(est_last).peer) > 0
    /\ RecordedTotal > MIN_PEER_POINTS_FOR_REGRESSION
    /\ IsSome(Unwrap(est_last).result)

\* C22: new(history) builds the global regression from all the events and a
\* regression for exactly the peers with strictly more than
\* MIN_PEER_POINTS_FOR_REGRESSION events, from the events of that peer.
C22_New ==
    (est # None /\ est_adds = 0) =>
        /\ EstGlobal = RecordedAll
        /\ \A p \in Peers :
              /\ IsSome(EstPeerRegression(p)) <=>
                     RecordedFor(p) > MIN_PEER_POINTS_FOR_REGRESSION
              /\ IsSome(EstPeerRegression(p)) =>
                     Unwrap(EstPeerRegression(p)) = recorded[p]
\* One peer sits at the threshold and has no regression; another is one above.
C22_Witness ==
    /\ est # None
    /\ est_adds = 0
    /\ \E p \in Peers :
          /\ RecordedFor(p) = MIN_PEER_POINTS_FOR_REGRESSION
          /\ ~IsSome(EstPeerRegression(p))
    /\ \E p \in Peers :
          /\ RecordedFor(p) = MIN_PEER_POINTS_FOR_REGRESSION + 1
          /\ IsSome(EstPeerRegression(p))

\* C23 (as stated): a peer with at most MIN_PEER_POINTS_FOR_REGRESSION recorded
\* events is answered with the global interpolation (or None), never with a
\* regression of its own.
C23_FewEventsGlobal ==
    (Estimated /\ RecordedFor(Unwrap(est_last).peer) <= MIN_PEER_POINTS_FOR_REGRESSION) =>
        LET r == Unwrap(est_last) IN
        /\ ~IsSome(EstPeerRegression(r.peer))
        /\ r.result = IF len(EstGlobal) > MIN_PEER_POINTS_FOR_REGRESSION
                      THEN Some(interpolate(EstGlobal, r.q))
                      ELSE None

\* C24 (as stated): every recorded event contributes exactly one point to the
\* global regression and exactly one to the regression of its peer, whose points
\* are exactly the events recorded for that peer.
C24_OnePointPerEvent ==
    est # None =>
        /\ EstGlobal = RecordedAll
        /\ \A p \in Peers :
              IsSome(EstPeerRegression(p)) => Unwrap(EstPeerRegression(p)) = recorded[p]

\* C25: for a fixed estimator and peer, the estimate does not decrease as the
\* distance grows.
C25_Monotone ==
    Estimated =>
        LET r == Unwrap(est_last) IN
        \A q2 \in Queries :
            LET other == estimate_retrieval_time(Unwrap(est), r.peer, q2) IN
            (r.q <= q2 /\ IsSome(r.result) /\ IsSome(other)) =>
                RatLeq(Unwrap(r.result), Unwrap(other))
\* The regression that answers holds a slower time nearer than a faster one, and
\* the estimate is asked between its two distances.
C25_Witness ==
    /\ Estimated
    /\ IsSome(Unwrap(est_last).result)
    /\ Unwrap(est_last).q = 1
    /\ LET own == EstPeerRegression(Unwrap(est_last).peer)
           reg == IF IsSome(own) THEN Unwrap(own) ELSE EstGlobal
       IN \E a, b \in Points :
            /\ a[1] < b[1] /\ a[2] > b[2]
            /\ reg[a] > 0 /\ reg[b] > 0

\* ---------------------------------------------------------------- C26..C30
\* The latest call of the contract interface, and the key that the code and the
\* parameters derive: H(H(code), parameters) with the 512-bit hash.
CkCalled(op) == ck # None /\ Unwrap(ck).op = op
CkResult == Unwrap(ck).result
CkValue == Unwrap(CkResult.val)
Derive(parameters, code) ==
    Unwrap(ContractKeyFrom(parameters,
                           [data |-> code, key |-> Digest("Blake2b512", code)]).val)

\* C26 (as stated): two keys that ContractKey::from derives are equal exactly when
\* the parameters and the code they were derived from are byte-identical.
C26_Injective ==
    CkCalled("ContractKey::from") =>
        LET c == Unwrap(ck) IN
        /\ c.result[1].kind = "ok"
        /\ c.result[2].kind = "ok"
        /\ (Unwrap(c.result[1].val) = Unwrap(c.result[2].val)) <=>
              (c.parameters[1] = c.parameters[2]
                  /\ c.contract[1].data = c.contract[2].data)

\* C27 (as stated): building ContractData succeeds for every code, and its key is
\* the full 64-byte digest of the code under the 512-bit hash of the outer key.
C27_ContractPart ==
    CkCalled("ContractData::from") =>
        /\ CkResult.kind = "ok"
        /\ Len(CkValue.key) = CONTRACT_KEY_SIZE
        /\ CkValue.key = Digest("Blake2b512", Unwrap(ck).code)

\* C28 (as stated): a received specification is accepted only if its key is the
\* one its code and parameters derive.
C28_ForgedRejected ==
    (CkCalled("deserialize specification") /\ CkResult.kind = "ok") =>
        CkValue.key = Derive(CkValue.parameters, CkValue.contract.data)

\* C29 (as stated): try_from gives, for the envelope of (params, code), the
\* specification with those parameters, that code and the derived key; for an
\* envelope cut short, an error.
C29_EnvelopeParses ==
    CkCalled("try_from") =>
        \A pr \in ByteStrings, c \in ByteStrings :
            LET envelope == Envelope(pr, c) IN
            /\ Unwrap(ck).bytes = envelope =>
                  /\ CkResult.kind = "ok"
                  /\ CkValue.parameters = pr
                  /\ CkValue.contract.data = c
                  /\ CkValue.key = Derive(pr, c)
            /\ (Unwrap(ck).bytes \in Prefixes(envelope) \ {envelope}) =>
                  CkResult.kind = "err"

\* C30: a ContractKey comes back from its encoding with both parts, each of
\* CONTRACT_KEY_SIZE bytes; a ContractSpecification comes back equal; an encoded
\* key whose first field does not hold CONTRACT_KEY_SIZE bytes is rejected.
C30_RoundTrip ==
    /\ CkCalled("key_ser") =>
          /\ CkResult = CkOk(Unwrap(ck).key)
          /\ Len(CkValue.spec) = CONTRACT_KEY_SIZE
          /\ Len(CkValue.contract) = CONTRACT_KEY_SIZE
    /\ CkCalled("specification_ser") =>
          /\ CkResult.kind = "ok"
          /\ SpecificationEq(CkValue, Unwrap(ck).specification)
          /\ CkValue = Unwrap(ck).specification
    /\ CkCalled("deserialize key") =>
          LET bytes == Unwrap(ck).bytes IN
          (Len(bytes) < 8 \/ U64Value(SubSeq(bytes, 1, 8)) # CONTRACT_KEY_SIZE) =>
              CkResult.kind = "err"
\* A key of two different parts has come back from its encoding.
C30_Witness ==
    /\ CkCalled("key_ser")
    /\ CkResult.kind = "ok"
    /\ Unwrap(ck).key.spec # Unwrap(ck).key.contract
    /\ Len(Unwrap(ck).serialized) = 2 * (8 + CONTRACT_KEY_SIZE)

\* ---------------------------------------------------------------- C31..C40
\* The node task, the NodeP2P once build has returned it, and whether run_node
\* was called on it.
Task == Unwrap(p2p)
Node == Unwrap(Task.node)
NodeBuilt == p2p # None /\ Task.node # None
NodeRan == NodeBuilt /\ Task.pc # "built"

\* C31 (as stated): the initial join procedure is run iff the node is not a
\* gateway and should_connect is set; a gateway never runs it.
C31_GatewayNeverJoins ==
    NodeRan =>
        (Task.join_calls > 0 <=> (~Node.is_gateway /\ Node.should_try_connect))

\* C40: the event listener is started after a join attempt only if the join
\* procedure returned Ok; if it returned an error, run_node has returned that
\* error and the listener was not started; without should_try_connect the
\* listener starts with no join attempt.
C40_StartupOrder ==
    NodeBuilt =>
        /\ (Task.listener_started /\ Node.should_try_connect) =>
              (Task.join_result # None /\ ~Failed(Unwrap(Task.join_result)))
        /\ (Task.join_result # None /\ Failed(Unwrap(Task.join_result))) =>
              /\ ~Task.listener_started
              /\ Task.pc = "returned"
              /\ Task.returned = Task.join_result
        /\ ~Node.should_try_connect =>
              /\ Task.join_calls = 0
              /\ Task.pc # "built" => Task.listener_started
\* The join procedure failed and run_node has returned.
C40_Witness ==
    /\ NodeBuilt
    /\ Node.should_try_connect
    /\ Task.join_calls = 1
    /\ Task.join_result # None
    /\ Failed(Unwrap(Task.join_result))
    /\ Task.pc = "returned"

\* The InboxModel and its latest call.
Model == Unwrap(inbox)
InboxCalled(op) == inbox_last # None /\ Unwrap(inbox_last).op = op
Removing == InboxCalled("remove_received_message") \/ InboxCalled("remove_messages")
Listed == {Unwrap(inbox_last).ids[i] : i \in 1..Len(Unwrap(inbox_last).ids)}
IsListed(a) == a.id \in Listed
NotListed(a) == a.id \notin Listed

\* C32: remove_received_message(ids) leaves exactly the messages whose id is not
\* in ids, in their order, for ids of any length.
C32_RemoveExactly ==
    Removing => Model.messages = SelectSeq(Unwrap(inbox_last).before, NotListed)
\* A single id removed from the middle of a list that earlier removals have
\* already thinned: its position is no longer its id.
C32_Witness ==
    /\ InboxCalled("remove_received_message")
    /\ Len(Unwrap(inbox_last).ids) = 1
    /\ Len(Unwrap(inbox_last).before) >= 3
    /\ Unwrap(inbox_last).before[2].id \in Listed
    /\ Unwrap(inbox_last).before[2].id # 1
    /\ Len(Model.messages) = Len(Unwrap(inbox_last).before) - 1

\* C38: message ids are strictly increasing along the list, next_msg_id is above
\* every id present, and no id that was ever assigned is assigned again.
C38_IdsIncreasing ==
    (inbox # None /\ Unwrap(inbox_last).origin = "from_state") =>
        /\ \A i \in 1..(Len(Model.messages) - 1) :
              Model.messages[i].id < Model.messages[i + 1].id
        /\ \A i \in 1..Len(Model.messages) :
              /\ Model.messages[i].id < Model.next_msg_id
              /\ Model.messages[i].id \in Unwrap(inbox_last).assigned
        /\ Model.next_msg_id \notin Unwrap(inbox_last).assigned
        /\ InboxCalled("add_received_message") =>
              \A i \in 1..Len(Unwrap(inbox_last).before) :
                  Unwrap(inbox_last).before[i].id # Model.messages[Len(Model.messages)].id
\* A message was added after the removal of an earlier one.
C38_Witness ==
    /\ InboxCalled("add_received_message")
    /\ Len(Model.messages) >= 2
    /\ Len(Model.messages) < Cardinality(Unwrap(inbox_last).assigned)
    /\ Model.messages[Len(Model.messages)].id = Model.next_msg_id - 1

\* C39 (as stated): the RemoveMessages delta of remove_messages(ids) lists the
\* assignment hashes of exactly the messages removed.
C39_DeltaListsRemoved ==
    (InboxCalled("remove_messages") /\ Unwrap(inbox_last).delta # None) =>
        LET removed == SelectSeq(Unwrap(inbox_last).before, IsListed) IN
        Unwrap(Unwrap(inbox_last).delta).ids =
            [i \in 1..Len(removed) |-> removed[i].assignment_hash]

\* C33 (as stated): the hops_to_live of a forwarded Req::Proxy is below the one
\* received, and computing it never underflows: handling a Req::Initial neither
\* panics on the subtraction nor forwards a wrapped value.
C33_NoUnderflow ==
    HandledReqInitial =>
        LET l == Unwrap(last)
            req == Unwrap(l.msg).msg
            result == Unwrap(l.result)
        IN /\ ~(result.kind = "panic" /\ result.sends = <<>>)
           /\ \A i \in 1..Len(outbox) :
                 IsReqProxy(outbox[i].msg.inner) =>
                     /\ outbox[i].msg.inner.msg.hops_to_live >= 0
                     /\ outbox[i].msg.inner.msg.hops_to_live < req.hops_to_live

\* C34 (as stated): in the handshake no message is delivered to a machine that
\* is already Connected: every delivery is consumed successfully, and once both
\* machines are Connected no message is in flight.
C34_NoDeliveryToConnected ==
    /\ IsSome(sm_last) =>
          /\ Unwrap(sm_last).ok
          /\ Unwrap(sm_last).before # Connected
    /\ (hs_step > 0 /\ sm["host_1"] = Connected /\ sm["host_2"] = Connected) =>
          wire = None

\* C35 (as stated): an initial_join_request that returns an error has pushed no
\* operation and has left no connection to the gateway in the connection bridge.
C35_FailedJoinNoEffect ==
    (Called("initial_join_request") /\ Unwrap(last).outcome = "err") =>
        LET info == try_unwrap_connecting(Unwrap(Unwrap(last).join_op)) IN
        /\ IsSome(Unwrap(last).tx) => Unwrap(Unwrap(last).tx) \notin DOMAIN op_storage
        /\ info # None => Unwrap(info).gateway \notin connections

\* C36 (as stated): when the transaction of the message maps to an operation that
\* is not a JoinRing one, join_ring_op returns TxUpdateFailure and that operation
\* is still stored under its transaction.
C36_OtherOpKept ==
    (Called("join_ring_op")
        /\ IsSome(Unwrap(last).popped)
        /\ Unwrap(Unwrap(last).popped).variant # "JoinRing") =>
        /\ Unwrap(last).outcome = "err"
        /\ Unwrap(last).error = "TxUpdateFailure"
        /\ Unwrap(Unwrap(last).tx) \in DOMAIN op_storage
        /\ op_storage[Unwrap(Unwrap(last).tx)] = Unwrap(Unwrap(last).popped)

\* C37 (as stated): every ContractSpecification obtained carries the key derived
\* from its own parameters and contract, and its ContractData carries the hash of
\* its own data.
C37_KeysConsistent ==
    (CkCalled("deserialize specification") /\ CkResult.kind = "ok") =>
        /\ CkOk(CkValue.key) = ContractKeyFrom(CkValue.parameters, CkValue.contract)
        /\ \E alg \in {"Blake2s256", "Blake2b512"} :
              CkValue.contract.key = Digest(alg, CkValue.contract.data)

====
